---------------------------- MODULE Spec2Model ----------------------------
(***************************************************************************)
(* surreallog: a wrapper that captures a child process's output, parses    *)
(* workflow commands, masks secrets, batches events and relays them to     *)
(* SurrealDB over one websocket connection.                                *)
(*                                                                         *)
(* The module holds several state machines over one set of variables:      *)
(*   SpecSender  the batching sender         (src/main.go, sender)         *)
(*   SpecSDB     the RPC transport client    (src/internal/sdb/sdb.go)     *)
(*   SpecReader  the stream readers          (src/main.go, streamReader,   *)
(*               src/internal/ghc/ghc.go)                                  *)
(*   SpecSerial  the id sequence             (src/internal/sdb/sdb.go)     *)
(*   SpecHandoff the queue between readers and sender (src/main.go, runCmd)*)
(* Each specification moves its own variables and leaves the others at     *)
(* their initial values.                                                   *)
(***************************************************************************)
EXTENDS Integers, Sequences, FiniteSets, TLC

(***************************************************************************)
(* Bounds of the model                                                     *)
(***************************************************************************)
\* number of events the consumer hands to sender.write
MaxEvents == 3
\* largest event size (bytes) and largest flush threshold opt.mbs tried
MaxSize == 2
MaxMbs == 3
\* connections dialed, rpc calls started, lifecycle calls by the controller,
\* response frames the server sends, and the largest value of the id counter
\* (Go's int, scaled down so that the overflow branch of serial.next is reached)
MaxConns == 2
MaxCalls == 2
MaxOps == 3
MaxResp == 2
MaxInt == 2
MaxIssued == 7
\* events the reader of stdout and the reader of stderr push at most (the
\* first is larger than the capacity of lineChan, so that a push blocks)
MaxProd == 11
MaxErrProd == 1
\* lines the child writes to stdout and to stderr, and the length of the
\* scanner buffer (4096 in the program, main.go line 403, scaled down; every
\* line of the child is shorter)
MaxLines == 3
MaxErrLines == 1
BufLen == 32

(***************************************************************************)
(* State of the batching sender: src/main.go, type sender, lines 295-303   *)
(***************************************************************************)
VARIABLES
  buf,        \* sender.buf: sequence of [id, size] (the wire-ready events)
  bufSize,    \* sender.bufSize
  timer,      \* sender.timer: "nil", or the state of the timer it points to
  mu,         \* sender.mu: "free" or the thread holding it
  mbs,        \* opt.mbs, the flush threshold
  spc,        \* position of each thread: "main" (runCmd), "cb" (timer callback)
  sctx,       \* what the main thread is doing around a flush
  cbPending,  \* fired timer callbacks that have not yet taken the lock
  nWritten,   \* events handed to write so far
  submits,    \* per event id: the number of submit requests that carried it
  flushed,    \* per thread: did its last flush submit a batch, and how it ended
  crashed     \* the process panicked

senderVars ==
  <<buf, bufSize, timer, mu, mbs, spc, sctx, cbPending,
    nWritten, submits, flushed, crashed>>

(***************************************************************************)
(* State of the RPC transport client: src/internal/sdb/sdb.go, 45-78       *)
(***************************************************************************)
VARIABLES
  ws,          \* SDB.ws: 0 for nil, else the number of the connection
  endpoint,    \* SDB.endpoint
  CloseErr,    \* SDB.CloseErr: "nil", "closed" (net.ErrClosed) or "err"
  CloseChan,   \* SDB.CloseChan: 0 for nil, else the number of the channel
  respNil,     \* SDB.respChans is the nil map
  respChans,   \* SDB.respChans: id -> response channel <<caller, call number>>
  idNil,       \* SDB.id is nil
  cntr,        \* SDB.id.cntr
  wsLock,      \* SDB.wsLock: "free" or its holder
  closedChans, \* the CloseChan channels that have been closed
  conn,        \* per connection: [st: unused/open/closed, peer: up/down]
  inbox,       \* per connection: response frames [id, err] not yet read
  reqs,        \* per connection: ids of the request frames the server got
  nConn,       \* connections dialed so far
  nResp,       \* response frames sent so far
  lpc,         \* per connection: position of the listen goroutine it started
  lconn,       \* listen: the connection its ReadMessage call reads
  lchan,       \* listen: the channel it sends to or waits on
  lframe,      \* listen: the frame it is delivering
  cpc,         \* per caller: position inside rpc
  cid,         \* rpc: local id (0 when the call holds no slot)
  cconn,       \* rpc: the connection that was current when the slot was made
  cres,        \* rpc: how the last call returned
  ncalls,      \* rpc calls started per caller
  ctlpc,       \* position of the thread calling Connect and Close
  nOps,        \* Connect and Close calls returned
  lastOp,      \* the last Connect or Close call: [op, arg, dialed, res]
  closeErrs,   \* Close: errs
  sdbCrashed   \* the process panicked

sdbVars ==
  <<ws, endpoint, CloseErr, CloseChan, respNil, respChans, idNil, cntr, wsLock,
    closedChans, conn, inbox, reqs, nConn, nResp, lpc, lconn, lchan, lframe,
    cpc, cid, cconn, cres, ncalls, ctlpc, nOps, lastOp, closeErrs,
    sdbCrashed>>

(***************************************************************************)
(* State of the stream readers: src/main.go, streamReader, lines 399-485   *)
(***************************************************************************)
VARIABLES
  script,    \* what the child may write: <<lines to stdout, lines to stderr,
             \* chunks to stdout that end where the child chose>>
  pipe,      \* per stream: bytes the child has written and nobody has read
  pclosed,   \* the child has exited and its ends of the pipes are closed
  nOut,      \* per stream: lines written so far
  sbuf,      \* per reader: the scanner buffer (buf, line 403)
  sstart,    \* per reader: scanner.start
  send,      \* per reader: scanner.end
  serr,      \* per reader: the scanner has met EOF
  masks,     \* per reader: masks, slices [off, n] of the scanner buffer
  enable,    \* per reader: enable
  endtoken,  \* per reader: endtoken
  rdone,     \* per reader: streamReader has returned
  lineChan,  \* the events sent on lineChan so far, in order
  hist,      \* per reader: the tokens scanner.Bytes() has returned
  regd,      \* per reader: the bytes of each mask when it was appended
  written    \* per stream: all the bytes the child has written

readerVars ==
  <<script, pipe, pclosed, nOut, sbuf, sstart, send, serr, masks, enable,
    endtoken, rdone, lineChan, hist, regd, written>>

\* a serial of src/internal/sdb/sdb.go on its own: its fields, and the calls
\* made on it so far with the id each call of next returned
VARIABLES serial, issued

serialVars == <<serial, issued>>

\* the handoff of runCmd (src/main.go, lines 504-547) between the readers,
\* the goroutine that runs the child, and the consumer loop
VARIABLES
  queue,      \* the events buffered in the channel lineChan, oldest first
  qclosed,    \* close(lineChan) has been executed
  wg,         \* the counter of the WaitGroup
  rpos,       \* per reader: "spawned" (go statement executed), "scan", "done"
  prod,       \* per reader: the events it has pushed so far
  gpos,       \* the goroutine of lines 507-520
  mpos,       \* the consumer loop of lines 524-547
  handed,     \* the events passed to sender.write, in order
  sendClosed  \* a reader has executed a send on the closed lineChan (a panic)

handoffVars ==
  <<queue, qclosed, wg, rpos, prod, gpos, mpos, handed, sendClosed>>

vars == <<senderVars, sdbVars, readerVars, serialVars, handoffVars>>

\* each state machine moves its own variables only
SenderOnly == UNCHANGED <<sdbVars, readerVars, serialVars, handoffVars>>
SDBOnly == UNCHANGED <<senderVars, readerVars, serialVars, handoffVars>>
ReaderOnly == UNCHANGED <<senderVars, sdbVars, serialVars, handoffVars>>
SerialOnly == UNCHANGED <<senderVars, sdbVars, readerVars, handoffVars>>
HandoffOnly == UNCHANGED <<senderVars, sdbVars, readerVars, serialVars>>

(***************************************************************************)
(* Batching sender: src/main.go, sender.write, sender.flush, runCmd        *)
(***************************************************************************)
Threads == {"main", "cb"}

SenderInit ==
  /\ buf = <<>>
  /\ bufSize = 0
  /\ timer = "nil"
  /\ mu = "free"
  /\ mbs \in 0..MaxMbs
  /\ spc = [t \in Threads |-> IF t = "main" THEN "select" ELSE "idle"]
  /\ sctx = "select"
  /\ cbPending = 0
  /\ nWritten = 0
  /\ submits = [i \in 1..(MaxEvents + 1) |-> 0]
  /\ flushed = [t \in Threads |-> "none"]
  /\ crashed = FALSE

\* where a thread continues when its flush returns
FlushReturn(t) ==
  IF t = "cb" THEN "unlock"
  ELSE IF sctx = "final" THEN "done" ELSE "unlock"

\* a write whose test of line 334 is s.bufSize > s.opt.mbs
WriteBody_Strict(sz) ==
  /\ mu = "free"
  /\ mu' = "main"
  /\ buf' = Append(buf, [id |-> nWritten + 1, size |-> sz])
  /\ bufSize' = bufSize + sz
  /\ timer' = "armed"
  /\ nWritten' = nWritten + 1
  /\ flushed' = [flushed EXCEPT !["main"] = "none"]
  /\ spc' = [spc EXCEPT !["main"] = IF bufSize + sz > mbs THEN "F1" ELSE "unlock"]
  /\ UNCHANGED <<mbs, cbPending, submits, crashed>>

\* sender.write, lines 319-336: lock, append, add the size, re-arm the timer,
\* then flush when the threshold is reached.  The timer callback only queues
\* behind the lock, so the locked prefix is one step.
WriteBody(sz) ==
  /\ mu = "free"
  /\ mu' = "main"
  /\ buf' = Append(buf, [id |-> nWritten + 1, size |-> sz])
  /\ bufSize' = bufSize + sz
  /\ timer' = "armed"
  /\ nWritten' = nWritten + 1
  /\ flushed' = [flushed EXCEPT !["main"] = "none"]
  /\ spc' = [spc EXCEPT !["main"] = IF bufSize + sz >= mbs THEN "F1" ELSE "unlock"]
  /\ UNCHANGED <<mbs, cbPending, submits, crashed>>

\* runCmd line 544-545 (case l := <-lineChan) and 527-533 (drain after done)
Write(sz) ==
  /\ SenderOnly
  /\ ~crashed
  /\ spc["main"] \in {"select", "drain"}
  /\ nWritten < MaxEvents
  /\ sctx' = spc["main"]
  /\ WriteBody(sz)

\* runCmd line 526: the child has exited and the readers are done
ChildExit ==
  /\ SenderOnly
  /\ ~crashed
  /\ spc["main"] = "select"
  /\ spc' = [spc EXCEPT !["main"] = "drain"]
  /\ UNCHANGED <<buf, bufSize, timer, mu, mbs, sctx, cbPending,
                 nWritten, submits, flushed, crashed>>

\* runCmd lines 535-538: cmd.Run failed, its error becomes a size-0 stderr line
WriteErr ==
  /\ SenderOnly
  /\ ~crashed
  /\ spc["main"] = "drain"
  /\ sctx' = "errw"
  /\ WriteBody(0)

\* runCmd line 540: the final flush, called without taking sender.mu, after the
\* queue is drained (err = nil) or after the error line has been written
FinalFlush ==
  /\ SenderOnly
  /\ ~crashed
  /\ spc["main"] \in {"drain", "final"}
  /\ sctx' = "final"
  /\ spc' = [spc EXCEPT !["main"] = "F1"]
  /\ flushed' = [flushed EXCEPT !["main"] = "none"]
  /\ UNCHANGED <<buf, bufSize, timer, mu, mbs, cbPending,
                 nWritten, submits, crashed>>

\* ids of the events in the buffer
BufIds == {buf[i].id : i \in 1..Len(buf)}

\* sender.flush lines 340-345: l := len(s.buf); return when 0; else call Query
FlushBegin(t) ==
  /\ SenderOnly
  /\ ~crashed
  /\ spc[t] = "F1"
  /\ IF Len(buf) = 0
       THEN /\ spc' = [spc EXCEPT ![t] = FlushReturn(t)]
            /\ submits' = submits
       ELSE /\ spc' = [spc EXCEPT ![t] = "F2"]
            /\ submits' = [i \in DOMAIN submits |->
                 IF i \in BufIds THEN submits[i] + 1 ELSE submits[i]]
  /\ UNCHANGED <<buf, bufSize, timer, mu, mbs, sctx, cbPending,
                 nWritten, flushed, crashed>>

\* sender.flush lines 345-350: Query returns, with or without an error
QueryReturn(t, ok) ==
  /\ SenderOnly
  /\ ~crashed
  /\ spc[t] = "F2"
  /\ flushed' = [flushed EXCEPT ![t] = IF ok THEN "ok" ELSE "err"]
  /\ spc' = [spc EXCEPT ![t] = "F3"]
  /\ UNCHANGED <<buf, bufSize, timer, mu, mbs, sctx, cbPending,
                 nWritten, submits, crashed>>

\* a flush that forgets line 353, s.bufSize = 0
FlushClear_KeepSize(t) ==
  /\ SenderOnly
  /\ ~crashed
  /\ spc[t] = "F3"
  /\ buf' = <<>>
  /\ spc' = [spc EXCEPT ![t] = "F4"]
  /\ UNCHANGED <<bufSize, timer, mu, mbs, sctx, cbPending, nWritten,
                 submits, flushed, crashed>>

\* sender.flush lines 352-353
FlushClear(t) ==
  /\ SenderOnly
  /\ ~crashed
  /\ spc[t] = "F3"
  /\ buf' = <<>>
  /\ bufSize' = 0
  /\ spc' = [spc EXCEPT ![t] = "F4"]
  /\ UNCHANGED <<timer, mu, mbs, sctx, cbPending, nWritten,
                 submits, flushed, crashed>>

\* sender.flush line 355: if s.timer != nil
FlushTimerCheck(t) ==
  /\ SenderOnly
  /\ ~crashed
  /\ spc[t] = "F4"
  /\ spc' = [spc EXCEPT ![t] = IF timer # "nil" THEN "F5" ELSE FlushReturn(t)]
  /\ UNCHANGED <<buf, bufSize, timer, mu, mbs, sctx, cbPending,
                 nWritten, submits, flushed, crashed>>

\* sender.flush lines 356-357: s.timer.Stop(); s.timer = nil.  The field is
\* read again for the call: when another flush has set it to nil in between
\* (the final flush holds no lock) the build either still holds the pointer
\* it tested (reread = FALSE) or dereferences nil and panics.
FlushTimerStop(t, reread) ==
  /\ SenderOnly
  /\ ~crashed
  /\ spc[t] = "F5"
  /\ IF reread /\ timer = "nil"
       THEN /\ crashed' = TRUE
            /\ UNCHANGED <<timer, spc>>
       ELSE /\ timer' = "nil"
            /\ spc' = [spc EXCEPT ![t] = FlushReturn(t)]
            /\ crashed' = crashed
  /\ UNCHANGED <<buf, bufSize, mu, mbs, sctx, cbPending,
                 nWritten, submits, flushed>>

\* the deferred s.mu.Unlock() of write (line 320) and of the callback (330)
Unlock(t) ==
  /\ SenderOnly
  /\ ~crashed
  /\ spc[t] = "unlock"
  /\ mu' = "free"
  /\ spc' = [spc EXCEPT ![t] =
       IF t = "cb" THEN "idle"
       ELSE IF sctx = "errw" THEN "final" ELSE sctx]
  /\ UNCHANGED <<buf, bufSize, timer, mbs, sctx, cbPending,
                 nWritten, submits, flushed, crashed>>

\* a timer that expires without its callback being started
TimerFire_NoCallback ==
  /\ SenderOnly
  /\ ~crashed
  /\ timer = "armed"
  /\ timer' = "fired"
  /\ UNCHANGED <<buf, bufSize, mu, mbs, spc, sctx, nWritten,
                 submits, flushed, crashed, cbPending>>

\* time.AfterFunc (line 328): the armed timer expires, its callback is started
TimerFire ==
  /\ SenderOnly
  /\ ~crashed
  /\ timer = "armed"
  /\ timer' = "fired"
  /\ cbPending' = cbPending + 1
  /\ UNCHANGED <<buf, bufSize, mu, mbs, spc, sctx, nWritten,
                 submits, flushed, crashed>>

\* the callback, lines 329-331: s.mu.Lock(), then s.flush()
CbLock ==
  /\ SenderOnly
  /\ ~crashed
  /\ spc["cb"] = "idle"
  /\ cbPending > 0
  /\ mu = "free"
  /\ mu' = "cb"
  /\ cbPending' = cbPending - 1
  /\ spc' = [spc EXCEPT !["cb"] = "F1"]
  /\ flushed' = [flushed EXCEPT !["cb"] = "none"]
  /\ UNCHANGED <<buf, bufSize, timer, mbs, sctx, nWritten,
                 submits, crashed>>

SenderNext ==
  \/ \E sz \in 0..MaxSize : Write(sz)
  \/ ChildExit
  \/ WriteErr
  \/ FinalFlush
  \/ \E t \in Threads : FlushBegin(t)
  \/ \E t \in Threads, ok \in BOOLEAN : QueryReturn(t, ok)
  \/ \E t \in Threads : FlushClear(t)
  \/ \E t \in Threads : FlushTimerCheck(t)
  \/ \E t \in Threads, reread \in BOOLEAN : FlushTimerStop(t, reread)
  \/ \E t \in Threads : Unlock(t)
  \/ TimerFire
  \/ CbLock

(***************************************************************************)
(* RPC transport client: src/internal/sdb/sdb.go                           *)
(***************************************************************************)
Conns == 1..MaxConns
Callers == {"p1", "p2"}
Endpoints == {"e1", "e2"}
EmptyMap == <<>>
NoFrame == [id |-> 0, err |-> FALSE]
NoChan == <<"none", 0>>

SDBInit ==
  /\ ws = 0
  /\ endpoint = ""
  /\ CloseErr = "nil"
  /\ CloseChan = 0
  /\ respNil = TRUE
  /\ respChans = EmptyMap
  /\ idNil = TRUE
  /\ cntr = 0
  /\ wsLock = "free"
  /\ closedChans = {}
  /\ conn = [c \in Conns |-> [st |-> "unused", peer |-> "up"]]
  /\ inbox = [c \in Conns |-> {}]
  /\ reqs = [c \in Conns |-> {}]
  /\ nConn = 0
  /\ nResp = 0
  /\ lpc = [c \in Conns |-> "none"]
  /\ lconn = [c \in Conns |-> 0]
  /\ lchan = [c \in Conns |-> NoChan]
  /\ lframe = [c \in Conns |-> NoFrame]
  /\ cpc = [p \in Callers |-> "idle"]
  /\ cid = [p \in Callers |-> 0]
  /\ cconn = [p \in Callers |-> 0]
  /\ cres = [p \in Callers |-> "none"]
  /\ ncalls = [p \in Callers |-> 0]
  /\ ctlpc = "idle"
  /\ nOps = 0
  /\ lastOp = [op |-> "none", arg |-> "", dialed |-> FALSE, res |-> "nil"]
  /\ closeErrs = FALSE
  /\ sdbCrashed = FALSE

\* map helpers for respChans (Go map assignment and delete)
MapPut(m, k, v) == [i \in (DOMAIN m) \cup {k} |-> IF i = k THEN v ELSE m[i]]
MapDel(m, k) == [i \in (DOMAIN m) \ {k} |-> m[i]]

\* a receive from channel ch (a CloseChan value) can proceed: only a closed
\* channel ever yields a value, a nil channel blocks forever
ChanReady(ch) == ch # 0 /\ ch \in closedChans

\* a Connect without the early return of lines 89-91: it dials again when
\* asked for the endpoint it is connected to
Connect_Redial(e) ==
  /\ SDBOnly
  /\ ~sdbCrashed
  /\ ctlpc = "idle"
  /\ nOps < MaxOps
  /\ wsLock = "free"
  /\ nOps' = nOps + 1
  /\ IF ws # 0 /\ endpoint # e
       THEN /\ lastOp' = [op |-> "Connect", arg |-> e, dialed |-> FALSE,
                          res |-> "conflict"]
            /\ UNCHANGED <<ws, endpoint, CloseErr, CloseChan, respNil, respChans,
                           idNil, cntr, conn, nConn, lpc>>
       ELSE IF nConn = MaxConns
         THEN /\ lastOp' = [op |-> "Connect", arg |-> e, dialed |-> TRUE,
                            res |-> "dialerr"]
              /\ UNCHANGED <<ws, endpoint, CloseErr, CloseChan, respNil,
                             respChans, idNil, cntr, conn, nConn, lpc>>
         ELSE /\ lastOp' = [op |-> "Connect", arg |-> e, dialed |-> TRUE,
                            res |-> "nil"]
              /\ nConn' = nConn + 1
              /\ idNil' = FALSE
              /\ cntr' = IF idNil THEN 0 ELSE cntr
              /\ ws' = nConn + 1
              /\ endpoint' = e
              /\ CloseErr' = "nil"
              /\ CloseChan' = nConn + 1
              /\ respNil' = FALSE
              /\ respChans' = EmptyMap
              /\ conn' = [conn EXCEPT ![nConn + 1].st = "open"]
              /\ lpc' = [lpc EXCEPT ![nConn + 1] = "loop"]
  /\ UNCHANGED <<wsLock, closedChans, inbox, reqs, nResp, lconn, lchan, lframe,
                 cpc, cid, cconn, cres, ncalls, ctlpc, closeErrs, sdbCrashed>>

\* SDB.Connect, lines 84-117 (the whole call holds wsLock).  The dial fails
\* once MaxConns connections have been made.
Connect(e) ==
  /\ SDBOnly
  /\ ~sdbCrashed
  /\ ctlpc = "idle"
  /\ nOps < MaxOps
  /\ wsLock = "free"
  /\ nOps' = nOps + 1
  /\ IF ws # 0
       THEN /\ lastOp' = [op |-> "Connect", arg |-> e, dialed |-> FALSE,
                          res |-> IF endpoint = e THEN "nil" ELSE "conflict"]
            /\ UNCHANGED <<ws, endpoint, CloseErr, CloseChan, respNil, respChans,
                           idNil, cntr, conn, nConn, lpc>>
       ELSE IF nConn = MaxConns
         THEN /\ lastOp' = [op |-> "Connect", arg |-> e, dialed |-> TRUE,
                            res |-> "dialerr"]
              /\ UNCHANGED <<ws, endpoint, CloseErr, CloseChan, respNil,
                             respChans, idNil, cntr, conn, nConn, lpc>>
         ELSE /\ lastOp' = [op |-> "Connect", arg |-> e, dialed |-> TRUE,
                            res |-> "nil"]
              /\ nConn' = nConn + 1
              /\ idNil' = FALSE
              /\ cntr' = IF idNil THEN 0 ELSE cntr
              /\ ws' = nConn + 1
              /\ endpoint' = e
              /\ CloseErr' = "nil"
              /\ CloseChan' = nConn + 1
              /\ respNil' = FALSE
              /\ respChans' = EmptyMap
              /\ conn' = [conn EXCEPT ![nConn + 1].st = "open"]
              /\ lpc' = [lpc EXCEPT ![nConn + 1] = "loop"]
  /\ UNCHANGED <<wsLock, closedChans, inbox, reqs, nResp, lconn, lchan, lframe,
                 cpc, cid, cconn, cres, ncalls, ctlpc, closeErrs, sdbCrashed>>

\* a Close that does not execute close(s.CloseChan) of line 135
CloseBegin_Late ==
  /\ SDBOnly
  /\ ~sdbCrashed
  /\ ctlpc = "idle"
  /\ nOps < MaxOps
  /\ wsLock = "free"
  /\ IF ws = 0
       THEN /\ nOps' = nOps + 1
            /\ lastOp' = [op |-> "Close", arg |-> "", dialed |-> FALSE, res |-> "nil"]
            /\ UNCHANGED <<wsLock, closedChans, ctlpc, closeErrs>>
       ELSE /\ wsLock' = "ctl"
            /\ closedChans' = closedChans
            /\ ctlpc' = "c_close"
            /\ closeErrs' = FALSE
            /\ UNCHANGED <<nOps, lastOp>>
  /\ UNCHANGED <<ws, endpoint, CloseErr, CloseChan, respNil, respChans, idNil,
                 cntr, conn, inbox, reqs, nConn, nResp, lpc, lconn, lchan,
                 lframe, cpc, cid, cconn, cres, ncalls, sdbCrashed>>

\* SDB.Close, lines 120-125 and 135: take wsLock, return when not connected,
\* else close(s.CloseChan)
CloseBegin ==
  /\ SDBOnly
  /\ ~sdbCrashed
  /\ ctlpc = "idle"
  /\ nOps < MaxOps
  /\ wsLock = "free"
  /\ IF ws = 0
       THEN /\ nOps' = nOps + 1
            /\ lastOp' = [op |-> "Close", arg |-> "", dialed |-> FALSE, res |-> "nil"]
            /\ UNCHANGED <<wsLock, closedChans, ctlpc, closeErrs>>
       ELSE /\ wsLock' = "ctl"
            /\ closedChans' = closedChans \cup {CloseChan}
            /\ ctlpc' = "c_close"
            /\ closeErrs' = FALSE
            /\ UNCHANGED <<nOps, lastOp>>
  /\ UNCHANGED <<ws, endpoint, CloseErr, CloseChan, respNil, respChans, idNil,
                 cntr, conn, inbox, reqs, nConn, nResp, lpc, lconn, lchan,
                 lframe, cpc, cid, cconn, cres, ncalls, sdbCrashed>>

\* SDB.Close, lines 136-160: write the close control frame (an error when the
\* peer is gone already; else the server answers with its own close frame and
\* goes away), then s.ws.Close()
CloseTransport ==
  /\ SDBOnly
  /\ ~sdbCrashed
  /\ ctlpc = "c_close"
  /\ closeErrs' = (conn[ws].peer = "down")
  /\ conn' = [conn EXCEPT ![ws] = [st |-> "closed", peer |-> "down"]]
  /\ ctlpc' = "c_reset"
  /\ UNCHANGED <<ws, endpoint, CloseErr, CloseChan, respNil, respChans, idNil,
                 cntr, wsLock, closedChans, inbox, reqs, nConn, nResp, lpc,
                 lconn, lchan, lframe, cpc, cid, cconn, cres, ncalls, nOps, lastOp,
                 sdbCrashed>>

\* a Close whose deferred function leaves s.ws and s.endpoint as they are
CloseReset_KeepEndpoint ==
  /\ SDBOnly
  /\ ~sdbCrashed
  /\ ctlpc = "c_reset"
  /\ cntr' = 0
  /\ ws' = ws
  /\ endpoint' = endpoint
  /\ CloseChan' = 0
  /\ respNil' = TRUE
  /\ respChans' = EmptyMap
  /\ wsLock' = "free"
  /\ ctlpc' = "idle"
  /\ nOps' = nOps + 1
  /\ lastOp' = [op |-> "Close", arg |-> "", dialed |-> FALSE,
                res |-> IF closeErrs THEN "err" ELSE "nil"]
  /\ UNCHANGED <<CloseErr, idNil, closedChans, conn, inbox, reqs, nConn, nResp,
                 lpc, lconn, lchan, lframe, cpc, cid, cconn, cres, ncalls, closeErrs,
                 sdbCrashed>>

\* SDB.Close, the deferred function, lines 127-134, and the return 162-166
CloseReset ==
  /\ SDBOnly
  /\ ~sdbCrashed
  /\ ctlpc = "c_reset"
  /\ cntr' = 0
  /\ ws' = 0
  /\ endpoint' = ""
  /\ CloseChan' = 0
  /\ respNil' = TRUE
  /\ respChans' = EmptyMap
  /\ wsLock' = "free"
  /\ ctlpc' = "idle"
  /\ nOps' = nOps + 1
  /\ lastOp' = [op |-> "Close", arg |-> "", dialed |-> FALSE,
                res |-> IF closeErrs THEN "err" ELSE "nil"]
  /\ UNCHANGED <<CloseErr, idNil, closedChans, conn, inbox, reqs, nConn, nResp,
                 lpc, lconn, lchan, lframe, cpc, cid, cconn, cres, ncalls, closeErrs,
                 sdbCrashed>>

\* a serial.next without the check of lines 55-57: the increment of the
\* largest int wraps to the most negative one
SerialNext_Wrapped(c) == IF c = MaxInt THEN 0 - MaxInt - 1 ELSE c + 1

\* serial.next, lines 50-60: s.cntr++, and 1 when the increment overflowed
\* (Go's int wraps to the most negative value)
SerialNext(c) == IF c = MaxInt THEN 1 ELSE IF c + 1 < 0 THEN 1 ELSE c + 1

\* rpc calls started so far; the callers are interchangeable, so p1 is taken
\* to be the one that calls first
TotalCalls == ncalls["p1"] + ncalls["p2"]

\* the response channel made by caller p's current call (setChan line 297)
OwnChan(p) == <<p, ncalls[p]>>

\* SDB.rpc, lines 232-243, up to the deferred delChan:
\*   232-236  return s.CloseErr when the channel s.CloseChan names is closed
\*            (nil, nil when no error has been recorded);
\*   238      id := s.id.next()   (a nil s.id is dereferenced);
\*   239-242  setChan, lines 287-301: an id in use is an error, else the slot
\*            is registered (an assignment to an entry of the nil map panics).
RpcBegin(p) ==
  /\ SDBOnly
  /\ ~sdbCrashed
  /\ cpc[p] \in {"idle", "done"}
  /\ TotalCalls < MaxCalls
  /\ p = "p2" => ncalls["p1"] > 0
  /\ ncalls' = [ncalls EXCEPT ![p] = ncalls[p] + 1]
  /\ IF ChanReady(CloseChan)
       THEN /\ cpc' = [cpc EXCEPT ![p] = "done"]
            /\ cres' = [cres EXCEPT ![p] =
                 IF CloseErr = "nil" THEN "nilnil" ELSE "closeerr"]
            /\ UNCHANGED <<cntr, cid, cconn, respChans, sdbCrashed>>
       ELSE IF idNil
         THEN /\ sdbCrashed' = TRUE
              /\ UNCHANGED <<cntr, cid, cconn, respChans, cpc, cres>>
         ELSE /\ cntr' = SerialNext(cntr)
              /\ IF SerialNext(cntr) \in DOMAIN respChans
                   THEN /\ cres' = [cres EXCEPT ![p] = "inuse"]
                        /\ cpc' = [cpc EXCEPT ![p] = "done"]
                        /\ UNCHANGED <<cid, cconn, respChans, sdbCrashed>>
                   ELSE IF respNil
                     THEN /\ sdbCrashed' = TRUE
                          /\ UNCHANGED <<cid, cconn, respChans, cpc, cres>>
                     ELSE /\ respChans' =
                               MapPut(respChans, SerialNext(cntr), <<p, ncalls[p] + 1>>)
                          /\ cid' = [cid EXCEPT ![p] = SerialNext(cntr)]
                          /\ cconn' = [cconn EXCEPT ![p] = ws]
                          /\ cpc' = [cpc EXCEPT ![p] = "write"]
                          /\ cres' = [cres EXCEPT ![p] = "none"]
                          /\ UNCHANGED sdbCrashed
  /\ UNCHANGED <<ws, endpoint, CloseErr, CloseChan, respNil, idNil, wsLock,
                 closedChans, conn, inbox, reqs, nConn, nResp, lpc, lconn,
                 lchan, lframe, ctlpc, nOps, lastOp, closeErrs>>

\* SDB.write, lines 275-285, called at rpc line 250: under wsLock, marshal and
\* s.ws.WriteMessage (a nil s.ws is dereferenced; a connection whose peer is
\* gone gives a write error)
RpcWrite(p) ==
  /\ SDBOnly
  /\ ~sdbCrashed
  /\ cpc[p] = "write"
  /\ wsLock = "free"
  /\ IF ws = 0
       THEN /\ sdbCrashed' = TRUE
            /\ UNCHANGED <<reqs, cres, cpc>>
       ELSE IF conn[ws].peer = "down" \/ conn[ws].st = "closed"
         THEN /\ cres' = [cres EXCEPT ![p] = "writeerr"]
              /\ cpc' = [cpc EXCEPT ![p] = "del"]
              /\ UNCHANGED <<reqs, sdbCrashed>>
         ELSE /\ reqs' = [reqs EXCEPT ![ws] = @ \cup {cid[p]}]
              /\ cpc' = [cpc EXCEPT ![p] = "wait"]
              /\ UNCHANGED <<cres, sdbCrashed>>
  /\ UNCHANGED <<ws, endpoint, CloseErr, CloseChan, respNil, respChans, idNil,
                 cntr, wsLock, closedChans, conn, inbox, nConn, nResp, lpc,
                 lconn, lchan, lframe, cid, cconn, ncalls, ctlpc, nOps, lastOp,
                 closeErrs>>

\* SDB.rpc, lines 256-257: the 5 second timer wins the select
RpcTimeout(p) ==
  /\ SDBOnly
  /\ ~sdbCrashed
  /\ cpc[p] = "wait"
  /\ cres' = [cres EXCEPT ![p] = "timeout"]
  /\ cpc' = [cpc EXCEPT ![p] = "del"]
  /\ UNCHANGED <<ws, endpoint, CloseErr, CloseChan, respNil, respChans, idNil,
                 cntr, wsLock, closedChans, conn, inbox, reqs, nConn, nResp,
                 lpc, lconn, lchan, lframe, cid, cconn, ncalls, ctlpc, nOps, lastOp,
                 closeErrs, sdbCrashed>>

\* listen line 225 meets rpc lines 258-271: the unbuffered send of listener c
\* and the receive of caller p happen together
Deliver(c, p) ==
  /\ SDBOnly
  /\ ~sdbCrashed
  /\ lpc[c] = "send"
  /\ cpc[p] = "wait"
  /\ lchan[c] = OwnChan(p)
  /\ cres' = [cres EXCEPT ![p] = IF lframe[c].err THEN "apperr" ELSE "result"]
  /\ cpc' = [cpc EXCEPT ![p] = "del"]
  /\ lpc' = [lpc EXCEPT ![c] = "loop"]
  /\ lchan' = [lchan EXCEPT ![c] = NoChan]
  /\ lframe' = [lframe EXCEPT ![c] = NoFrame]
  /\ UNCHANGED <<ws, endpoint, CloseErr, CloseChan, respNil, respChans, idNil,
                 cntr, wsLock, closedChans, conn, inbox, reqs, nConn, nResp,
                 lconn, cid, cconn, ncalls, ctlpc, nOps, lastOp, closeErrs, sdbCrashed>>

\* an rpc without the deferred delChan of line 243
RpcDel_Keep(p) ==
  /\ SDBOnly
  /\ ~sdbCrashed
  /\ cpc[p] = "del"
  /\ cpc' = [cpc EXCEPT ![p] = "done"]
  /\ cid' = [cid EXCEPT ![p] = 0]
  /\ cconn' = [cconn EXCEPT ![p] = 0]
  /\ UNCHANGED <<ws, endpoint, CloseErr, CloseChan, respNil, respChans, idNil,
                 cntr, wsLock, closedChans, conn, inbox, reqs, nConn, nResp,
                 lpc, lconn, lchan, lframe, cres, ncalls, ctlpc, nOps, lastOp,
                 closeErrs, sdbCrashed>>

\* SDB.delChan, lines 312-317, deferred at rpc line 243
RpcDel(p) ==
  /\ SDBOnly
  /\ ~sdbCrashed
  /\ cpc[p] = "del"
  /\ respChans' = MapDel(respChans, cid[p])
  /\ cpc' = [cpc EXCEPT ![p] = "done"]
  /\ cid' = [cid EXCEPT ![p] = 0]
  /\ cconn' = [cconn EXCEPT ![p] = 0]
  /\ UNCHANGED <<ws, endpoint, CloseErr, CloseChan, respNil, idNil, cntr,
                 wsLock, closedChans, conn, inbox, reqs, nConn, nResp, lpc,
                 lconn, lchan, lframe, cres, ncalls, ctlpc, nOps, lastOp,
                 closeErrs, sdbCrashed>>

\* SDB.listen, lines 199-204: one turn of the loop.  The select returns when
\* the channel s.CloseChan names is closed (a nil channel never is); else the
\* default case calls s.ws.ReadMessage() on the connection s.ws names (a nil
\* s.ws is dereferenced).
ListenLoop(c) ==
  /\ SDBOnly
  /\ ~sdbCrashed
  /\ lpc[c] = "loop"
  /\ IF ChanReady(CloseChan)
       THEN /\ lpc' = [lpc EXCEPT ![c] = "exited"]
            /\ UNCHANGED <<lconn, sdbCrashed>>
       ELSE IF ws = 0
         THEN /\ sdbCrashed' = TRUE
              /\ UNCHANGED <<lpc, lconn>>
         ELSE /\ lconn' = [lconn EXCEPT ![c] = ws]
              /\ lpc' = [lpc EXCEPT ![c] = "recv"]
              /\ UNCHANGED sdbCrashed
  /\ UNCHANGED <<ws, endpoint, CloseErr, CloseChan, respNil, respChans, idNil,
                 cntr, wsLock, closedChans, conn, inbox, reqs, nConn, nResp,
                 lchan, lframe, cpc, cid, cconn, cres, ncalls, ctlpc, nOps, lastOp,
                 closeErrs>>

\* SDB.listen, lines 216-226: ReadMessage returned frame f; decode it, look
\* the id up (getChan, lines 303-310) and send to the channel found
ListenFrame(c, f) ==
  /\ SDBOnly
  /\ ~sdbCrashed
  /\ lpc[c] = "recv"
  /\ f \in inbox[lconn[c]]
  /\ inbox' = [inbox EXCEPT ![lconn[c]] = @ \ {f}]
  /\ IF f.id \in DOMAIN respChans
       THEN /\ lchan' = [lchan EXCEPT ![c] = respChans[f.id]]
            /\ lframe' = [lframe EXCEPT ![c] = f]
            /\ lpc' = [lpc EXCEPT ![c] = "send"]
       ELSE /\ lpc' = [lpc EXCEPT ![c] = "loop"]
            /\ UNCHANGED <<lchan, lframe>>
  /\ lconn' = [lconn EXCEPT ![c] = 0]
  /\ UNCHANGED <<ws, endpoint, CloseErr, CloseChan, respNil, respChans, idNil,
                 cntr, wsLock, closedChans, conn, reqs, nConn, nResp, cpc, cid, cconn,
                 cres, ncalls, ctlpc, nOps, lastOp, closeErrs, sdbCrashed>>

\* SDB.listen, lines 205-214: ReadMessage failed.  net.ErrClosed (the
\* transport was closed locally): record and return.  Any other error (the
\* server's close frame, which may be read before the local close is seen,
\* or a dropped connection): record, then receive from s.CloseChan as the
\* field reads now.
ListenReadErr(c) ==
  /\ SDBOnly
  /\ ~sdbCrashed
  /\ lpc[c] = "recv"
  /\ \/ /\ conn[lconn[c]].st = "closed"
        /\ CloseErr' = "closed"
        /\ lpc' = [lpc EXCEPT ![c] = "exited"]
        /\ UNCHANGED lchan
     \/ /\ conn[lconn[c]].peer = "down"
        /\ CloseErr' = "err"
        /\ lpc' = [lpc EXCEPT ![c] = IF ChanReady(CloseChan) THEN "exited"
                                     ELSE "waitclose"]
        /\ lchan' = [lchan EXCEPT ![c] =
             IF ChanReady(CloseChan) THEN NoChan ELSE <<"close", CloseChan>>]
  /\ lconn' = [lconn EXCEPT ![c] = 0]
  /\ UNCHANGED <<ws, endpoint, CloseChan, respNil, respChans, idNil, cntr,
                 wsLock, closedChans, conn, inbox, reqs, nConn, nResp, lframe,
                 cpc, cid, cconn, cres, ncalls, ctlpc, nOps, lastOp, closeErrs,
                 sdbCrashed>>

\* SDB.listen, line 211: the blocked receive on the CloseChan it read ends
\* when that channel is closed (never, for the nil channel)
ListenWake(c) ==
  /\ SDBOnly
  /\ ~sdbCrashed
  /\ lpc[c] = "waitclose"
  /\ ChanReady(lchan[c][2])
  /\ lpc' = [lpc EXCEPT ![c] = "exited"]
  /\ lchan' = [lchan EXCEPT ![c] = NoChan]
  /\ UNCHANGED <<ws, endpoint, CloseErr, CloseChan, respNil, respChans, idNil,
                 cntr, wsLock, closedChans, conn, inbox, reqs, nConn, nResp,
                 lconn, lframe, cpc, cid, cconn, cres, ncalls, ctlpc, nOps, lastOp,
                 closeErrs, sdbCrashed>>

\* the server answers a request it has received (a second answer to the same
\* request is possible), with a result or an application error
ServerRespond(c, id, isErr) ==
  /\ SDBOnly
  /\ ~sdbCrashed
  /\ nResp < MaxResp
  /\ conn[c].st = "open" /\ conn[c].peer = "up"
  /\ id \in reqs[c]
  /\ [id |-> id, err |-> isErr] \notin inbox[c]
  /\ inbox' = [inbox EXCEPT ![c] = @ \cup {[id |-> id, err |-> isErr]}]
  /\ nResp' = nResp + 1
  /\ UNCHANGED <<ws, endpoint, CloseErr, CloseChan, respNil, respChans, idNil,
                 cntr, wsLock, closedChans, conn, reqs, nConn, lpc, lconn,
                 lchan, lframe, cpc, cid, cconn, cres, ncalls, ctlpc, nOps, lastOp,
                 closeErrs, sdbCrashed>>

\* the server or the network drops the connection
PeerDrop(c) ==
  /\ SDBOnly
  /\ ~sdbCrashed
  /\ conn[c].st = "open" /\ conn[c].peer = "up"
  /\ conn' = [conn EXCEPT ![c].peer = "down"]
  /\ UNCHANGED <<ws, endpoint, CloseErr, CloseChan, respNil, respChans, idNil,
                 cntr, wsLock, closedChans, inbox, reqs, nConn, nResp, lpc,
                 lconn, lchan, lframe, cpc, cid, cconn, cres, ncalls, ctlpc, nOps,
                 lastOp, closeErrs, sdbCrashed>>

Frames == {[id |-> i, err |-> e] : i \in 1..MaxInt, e \in BOOLEAN}

SDBNext ==
  \/ \E e \in Endpoints : Connect(e)
  \/ CloseBegin
  \/ CloseTransport
  \/ CloseReset
  \/ \E p \in Callers : RpcBegin(p)
  \/ \E p \in Callers : RpcWrite(p)
  \/ \E p \in Callers : RpcTimeout(p)
  \/ \E c \in Conns, p \in Callers : Deliver(c, p)
  \/ \E p \in Callers : RpcDel(p)
  \/ \E c \in Conns : ListenLoop(c)
  \/ \E c \in Conns, f \in Frames : ListenFrame(c, f)
  \/ \E c \in Conns : ListenReadErr(c)
  \/ \E c \in Conns : ListenWake(c)
  \/ \E c \in Conns, id \in 1..MaxInt, isErr \in BOOLEAN : ServerRespond(c, id, isErr)
  \/ \E c \in Conns : PeerDrop(c)

(***************************************************************************)
(* Workflow command parser: src/internal/ghc/ghc.go                        *)
(* A byte slice is a sequence of one-character strings; a slice of the     *)
(* line being parsed is a pair of positions into the array that holds it,  *)
(* because unescape rewrites that array in place.                          *)
(***************************************************************************)
\* asciiSpace, line 215
asciiSpace == {"\t", "\n", "\r", " "}

\* the strings the code compares names with
S_debug == <<"d", "e", "b", "u", "g">>
S_notice == <<"n", "o", "t", "i", "c", "e">>
S_warning == <<"w", "a", "r", "n", "i", "n", "g">>
S_error == <<"e", "r", "r", "o", "r">>
S_group == <<"g", "r", "o", "u", "p">>
S_endgroup == <<"e", "n", "d", "g", "r", "o", "u", "p">>
S_addmask == <<"a", "d", "d", "-", "m", "a", "s", "k">>
S_stopcommands ==
  <<"s", "t", "o", "p", "-", "c", "o", "m", "m", "a", "n", "d", "s">>
S_github == <<".", "g", "i", "t", "h", "u", "b">>

\* the property names streamReader declares, as the bytes of their keys
OptKey ==
  [title |-> <<"t", "i", "t", "l", "e">>,
   file |-> <<"f", "i", "l", "e">>,
   col |-> <<"c", "o", "l">>,
   endColumn |-> <<"e", "n", "d", "C", "o", "l", "u", "m", "n">>,
   line |-> <<"l", "i", "n", "e">>,
   endLine |-> <<"e", "n", "d", "L", "i", "n", "e">>]

\* TrimLeftSpace, lines 217-230, for ASCII input: the number of bytes dropped
RECURSIVE TrimLeftSpace(_)
TrimLeftSpace(s) ==
  IF s # <<>> /\ Head(s) \in asciiSpace THEN 1 + TrimLeftSpace(Tail(s)) ELSE 0

\* the byte an escape sequence %xy stands for, "" when it is none
\* (switches of unescapeData, lines 238-251, and unescapeProperty, 264-284)
EscapeOf(x, y, prop) ==
  IF x = "0" /\ y \in {"A", "a"} THEN "\n"
  ELSE IF x = "0" /\ y \in {"D", "d"} THEN "\r"
  ELSE IF x = "2" /\ y = "5" THEN "%"
  ELSE IF prop /\ x = "2" /\ y \in {"C", "c"} THEN ","
  ELSE IF prop /\ x = "3" /\ y \in {"A", "a"} THEN ":"
  ELSE ""

\* unescape, lines 291-295, on the slice of array a that starts at position
\* lo and has n bytes: the bytes after the escape move two places down and
\* byte i (from 0) becomes c; the last two bytes of the old slice stay
unescape(a, lo, n, i, c) ==
  [p \in 1..Len(a) |->
     IF p = lo + i THEN c
     ELSE IF p > lo + i /\ p <= lo + n - 3 THEN a[p + 2]
     ELSE a[p]]

\* the loop of unescapeData (236-253) and unescapeProperty (262-286)
RECURSIVE UnescapeLoop(_, _, _, _, _)
UnescapeLoop(a, lo, n, i, prop) ==
  IF i >= n THEN [a |-> a, n |-> n]
  ELSE IF a[lo + i] = "%" /\ i < n - 2
            /\ EscapeOf(a[lo + i + 1], a[lo + i + 2], prop) # ""
    THEN UnescapeLoop(
           unescape(a, lo, n, i, EscapeOf(a[lo + i + 1], a[lo + i + 2], prop)),
           lo, n - 2, i + 1, prop)
    ELSE UnescapeLoop(a, lo, n, i + 1, prop)

\* a slice that is not nil: the array it lives in and its length
NotNil(r) == [a |-> r.a, n |-> r.n, isNil |-> FALSE]

\* unescapeData, lines 232-256, on a[lo..hi]: the array afterwards and the
\* length of the slice returned (it starts at lo)
unescapeData(a, lo, hi) ==
  IF hi < lo THEN [a |-> a, n |-> 0, isNil |-> FALSE]
  ELSE NotNil(UnescapeLoop(a, lo, hi - lo + 1, 0, FALSE))

\* unescapeProperty, lines 258-289: nil for an empty slice
unescapeProperty(a, lo, hi) ==
  IF hi < lo THEN [a |-> a, n |-> 0, isNil |-> TRUE]
  ELSE NotNil(UnescapeLoop(a, lo, hi - lo + 1, 0, TRUE))

\* opt[key] = prop when prop, the slice r that starts at lo, is not nil
\* (lines 179-181 and 191-193)
SetProp(opt, key, lo, r) ==
  IF r.isNil THEN opt ELSE MapPut(opt, key, SubSeq(r.a, lo, lo + r.n - 1))

\* results of the parser: no command, or name, data slice and properties
ErrSyntax(a) == [ok |-> FALSE, a |-> a, Name |-> <<>>, lo |-> 1, n |-> 0,
                 opt |-> EmptyMap]
Parsed(name, d, lo, opt) ==
  [ok |-> TRUE, a |-> d.a, Name |-> name, lo |-> lo, n |-> d.n, opt |-> opt]

\* the loop over the properties, lines 165-200; position j, start k of the
\* current key or value, val: a value is being read
RECURSIVE PropLoop(_, _, _, _, _, _, _)

\* case ',', lines 179-184, with r the unescaped value
PropComma(name, j, k, key, opt, r) ==
  PropLoop(r.a, name, j + 1, j + 1, FALSE, <<>>, SetProp(opt, key, k, r))

\* case ':', lines 190-198, with r the unescaped value
PropEnd(name, j, k, key, opt, r) ==
  [ok |-> TRUE, end |-> FALSE,
   cmd |-> Parsed(name, unescapeData(r.a, j + 2, Len(r.a)), j + 2,
                  SetProp(opt, key, k, r))]

PropLoop(a, name, j, k, val, key, opt) ==
  IF j > Len(a) THEN [ok |-> FALSE, a |-> a, opt |-> opt, end |-> TRUE]
  ELSE IF a[j] = "=" THEN
    IF val THEN [ok |-> FALSE, a |-> a, opt |-> opt, end |-> FALSE]
    ELSE PropLoop(a, name, j + 1, j + 1, TRUE, SubSeq(a, k, j - 1), opt)
  ELSE IF a[j] = "," THEN
    IF ~val THEN [ok |-> FALSE, a |-> a, opt |-> opt, end |-> FALSE]
    ELSE PropComma(name, j, k, key, opt, unescapeProperty(a, k, j - 1))
  ELSE IF a[j] = ":" THEN
    IF j = Len(a) \/ a[j + 1] # ":"
      THEN [ok |-> FALSE, a |-> a, opt |-> opt, end |-> FALSE]
      ELSE PropEnd(name, j, k, key, opt,
                   IF val THEN unescapeProperty(a, k, j - 1)
                   ELSE [a |-> a, n |-> 0, isNil |-> TRUE])
  ELSE PropLoop(a, name, j + 1, k, val, key, opt)

\* the loop labelled a, lines 151-202, from position i
RECURSIVE NameLoop(_, _, _)

\* case ' ', lines 163-200, with r the outcome of the loop over the properties
AfterProps(i, r) ==
  IF r.ok THEN r.cmd
  ELSE IF r.end THEN NameLoop(r.a, i + 1, r.opt)
  ELSE ErrSyntax(r.a)

NameLoop(a, i, opt) ==
  IF i > Len(a) THEN ErrSyntax(a)
  ELSE IF a[i] = ":" THEN
    IF i = Len(a) \/ a[i + 1] # ":" THEN ErrSyntax(a)
    ELSE Parsed(SubSeq(a, 3, i - 1), unescapeData(a, i + 2, Len(a)), i + 2, opt)
  ELSE IF a[i] = " " THEN
    AfterProps(i, PropLoop(a, SubSeq(a, 3, i - 1), i + 1, i + 1, FALSE, <<>>,
                           opt))
  ELSE NameLoop(a, i + 1, opt)

\* what PraseGHC returns for token s, of which t bytes were trimmed, given
\* the outcome r of the loop: ok (a command was recognised), Name, Data (its
\* bytes), off (where Data starts in s, counted from 0), opt
\* (GHCOptions.data), and line: the bytes of s after the call, which unescape
\* may have rewritten
Command(s, t, r) ==
  [ok |-> r.ok,
   Name |-> r.Name,
   Data |-> SubSeq(r.a, r.lo, r.lo + r.n - 1),
   off |-> t + r.lo - 1,
   opt |-> r.opt,
   line |-> SubSeq(s, 1, t) \o r.a]

\* lines 139-141 and the loop, on the trimmed slice a
ParseTrimmed(a) ==
  IF Len(a) <= 4 \/ a[1] # ":" \/ a[2] # ":"
    THEN ErrSyntax(a) ELSE NameLoop(a, 3, EmptyMap)

\* PraseGHC, lines 137-213, on the token s
PraseGHC(s) ==
  Command(s, TrimLeftSpace(s),
          ParseTrimmed(SubSeq(s, TrimLeftSpace(s) + 1, Len(s))))

\* encoding/json Unmarshal of a property value into an int64 (line 32):
\* white space around the literal is skipped, null leaves 0, an integer
\* literal gives its value, anything else is an error
JsonSpace == {" ", "\t", "\n", "\r"}
Digits == <<"0", "1", "2", "3", "4", "5", "6", "7", "8", "9">>
IsDigit(c) == \E i \in 1..10 : Digits[i] = c
DigitVal(c) == (CHOOSE i \in 1..10 : Digits[i] = c) - 1

RECURSIVE TrimRightSpace(_)
TrimRightSpace(s) ==
  IF s # <<>> /\ s[Len(s)] \in JsonSpace
    THEN TrimRightSpace(SubSeq(s, 1, Len(s) - 1)) ELSE s

RECURSIVE TrimJsonLeft(_)
TrimJsonLeft(s) ==
  IF s # <<>> /\ Head(s) \in JsonSpace THEN TrimJsonLeft(Tail(s)) ELSE s

RECURSIVE NatOf(_)
NatOf(s) == IF s = <<>> THEN 0 ELSE 10 * NatOf(SubSeq(s, 1, Len(s) - 1)) + DigitVal(s[Len(s)])

\* the literal t, of which d are the digits and neg tells the sign
JsonLiteral(t, neg, d) ==
  IF t = <<"n", "u", "l", "l">> THEN [err |-> "nil", v |-> 0]
  ELSE IF /\ d # <<>>
          /\ \A i \in 1..Len(d) : IsDigit(d[i])
          /\ (Len(d) > 1 => d[1] # "0")
    THEN [err |-> "nil", v |-> IF neg THEN 0 - NatOf(d) ELSE NatOf(d)]
    ELSE [err |-> "json", v |-> 0]

JsonTrimmed(t) ==
  IF t # <<>> /\ Head(t) = "-" THEN JsonLiteral(t, TRUE, Tail(t))
  ELSE JsonLiteral(t, FALSE, t)

JsonInt(s) == JsonTrimmed(TrimRightSpace(TrimJsonLeft(s)))

\* a []byte argument that may be nil
NilBytes == [isNil |-> TRUE, b |-> <<>>]
Bytes(b) == [isNil |-> FALSE, b |-> b]

\* stringOption, lines 18-24
stringOption(s) ==
  IF s.isNil THEN [err |-> "ErrNoParam", v |-> <<>>] ELSE [err |-> "nil", v |-> s.b]

\* a naturalNumOption without the range check of lines 35-37
NumberInRange_Any(r) ==
  IF r.err # "nil" THEN [err |-> "json", v |-> 0] ELSE [err |-> "nil", v |-> r.v]

\* naturalNumOption, lines 26-40
NumberInRange(r) ==
  IF r.err # "nil" THEN [err |-> "json", v |-> 0]
  ELSE IF r.v < 1 THEN [err |-> "ErrOutOfRange", v |-> 0]
  ELSE [err |-> "nil", v |-> r.v]

naturalNumOption(s) ==
  IF s.isNil THEN [err |-> "ErrNoParam", v |-> 0]
  ELSE NumberInRange(JsonInt(s.b))

\* the conversions installed by GHCOptions.String (55-63), NaturalNum
\* (65-73), StringWithDefault (75-83) and NaturalNumWithDefault (85-93)
String(s) ==
  IF s.isNil THEN [err |-> "errIgnore", v |-> <<>>] ELSE stringOption(s)

\* a NaturalNum that makes the property required, as naturalNumOption does
NaturalNum_Required(s) == naturalNumOption(s)

NaturalNum(s) ==
  IF s.isNil THEN [err |-> "errIgnore", v |-> <<>>] ELSE naturalNumOption(s)

StringWithDefault(s, v) ==
  IF s.isNil THEN [err |-> "nil", v |-> v] ELSE stringOption(s)

NaturalNumWithDefault(s, v) ==
  IF s.isNil THEN [err |-> "nil", v |-> v] ELSE naturalNumOption(s)

\* o.defs after the calls of main.go lines 427-432
AnnotationDefs == {"title", "file", "col", "endColumn", "line", "endLine"}

\* the conversion o.defs[p] applied to s
Into(p, s) ==
  CASE p = "title" -> String(s)
    [] p = "file" -> StringWithDefault(s, S_github)
    [] p = "col" -> NaturalNum(s)
    [] p = "endColumn" -> NaturalNum(s)
    [] p = "line" -> NaturalNumWithDefault(s, 1)
    [] p = "endLine" -> NaturalNumWithDefault(s, 1)

\* GHCOptions.Map, lines 95-115, for the properties data and the declared
\* names defs: an error, or the map of the converted values
Lookup(data, p) ==
  IF OptKey[p] \in DOMAIN data THEN Bytes(data[OptKey[p]]) ELSE NilBytes

MapOf(defs, r) ==
  IF \E p \in defs : r[p].err \notin {"nil", "errIgnore"}
    THEN [err |-> TRUE, out |-> EmptyMap]
    ELSE [err |-> FALSE,
          out |-> [p \in {q \in defs : r[q].err = "nil"} |-> r[p].v]]

Map(data, defs) == MapOf(defs, [p \in defs |-> Into(p, Lookup(data, p))])

(***************************************************************************)
(* The id sequence: src/internal/sdb/sdb.go, serial                        *)
(***************************************************************************)
\* &serial{}, line 105
SerialInit ==
  /\ serial = [cntr |-> 0]
  /\ issued = <<>>

\* id := s.id.next(), line 238 (serial.next, lines 50-60, under serial.lock)
SerialIssue ==
  /\ SerialOnly
  /\ Len(issued) < MaxIssued
  /\ serial' = [serial EXCEPT !.cntr = SerialNext(@)]
  /\ issued' = Append(issued, [op |-> "next", id |-> SerialNext(serial.cntr)])

\* s.id.reset(), line 128 (serial.reset, lines 62-67), run by Close()
SerialReset ==
  /\ SerialOnly
  /\ Len(issued) < MaxIssued
  /\ serial' = [serial EXCEPT !.cntr = 0]
  /\ issued' = Append(issued, [op |-> "reset", id |-> 0])

SerialStep ==
  \/ SerialIssue
  \/ SerialReset

(***************************************************************************)
(* The handoff queue: src/main.go, runCmd lines 504-547, streamReader      *)
(* lines 399-402 and 482-483                                               *)
(***************************************************************************)
\* make(chan *line, 10), line 504
LineChanCap == 10

\* the state when the two go statements of lines 510-511 have been executed
\* and the consumer loop is about to start
HandoffInit ==
  /\ queue = <<>>
  /\ qclosed = FALSE
  /\ wg = 0
  /\ rpos = [k \in {1, 2} |-> "spawned"]
  /\ prod = [k \in {1, 2} |-> 0]
  /\ gpos = "run"
  /\ mpos = "select"
  /\ handed = <<>>
  /\ sendClosed = FALSE

\* the process goes on: no panic so far, and runCmd has not returned
Running == ~sendClosed /\ mpos # "returned"

\* streamReader, line 400: wg.Add(1), executed by the reader's own goroutine
ReaderAdd(k) ==
  /\ HandoffOnly
  /\ Running
  /\ rpos[k] = "spawned"
  /\ rpos' = [rpos EXCEPT ![k] = "scan"]
  /\ wg' = wg + 1
  /\ UNCHANGED <<queue, qclosed, prod, gpos, mpos, handed, sendClosed>>

\* streamReader, l <- ... (lines 421, 436, 446, 455, 483): the send blocks
\* while the channel is full, and panics when the channel is closed
ReaderPush(k) ==
  /\ HandoffOnly
  /\ Running
  /\ rpos[k] = "scan"
  /\ prod[k] < (IF k = 1 THEN MaxProd ELSE MaxErrProd)
  /\ IF qclosed
       THEN /\ sendClosed' = TRUE
            /\ UNCHANGED <<queue, prod>>
       ELSE /\ Len(queue) < LineChanCap
            /\ queue' = Append(queue, <<k, prod[k] + 1>>)
            /\ prod' = [prod EXCEPT ![k] = @ + 1]
            /\ UNCHANGED sendClosed
  /\ UNCHANGED <<qclosed, wg, rpos, gpos, mpos, handed>>

\* streamReader returns at the end of its stream, which the child's exit
\* brings about: the deferred wg.Done(), line 401
ReaderDone(k) ==
  /\ HandoffOnly
  /\ Running
  /\ rpos[k] = "scan"
  /\ gpos # "run"
  /\ rpos' = [rpos EXCEPT ![k] = "done"]
  /\ wg' = wg - 1
  /\ UNCHANGED <<queue, qclosed, prod, gpos, mpos, handed, sendClosed>>

\* cmd.Run() returns, line 514
CmdRunReturns ==
  /\ HandoffOnly
  /\ Running
  /\ gpos = "run"
  /\ gpos' = "wait"
  /\ UNCHANGED <<queue, qclosed, wg, rpos, prod, mpos, handed, sendClosed>>

\* wg.Wait(), line 516: returns when the counter is 0
WgWait ==
  /\ HandoffOnly
  /\ Running
  /\ gpos = "wait"
  /\ wg = 0
  /\ gpos' = "close"
  /\ UNCHANGED <<queue, qclosed, wg, rpos, prod, mpos, handed, sendClosed>>

\* close(lineChan), line 517
CloseLineChan ==
  /\ HandoffOnly
  /\ Running
  /\ gpos = "close"
  /\ qclosed' = TRUE
  /\ gpos' = "send"
  /\ UNCHANGED <<queue, wg, rpos, prod, mpos, handed, sendClosed>>

\* case l := <-lineChan (lines 544-545) and the range of lines 527-533:
\* the oldest event is received and passed to s.write.  (A receive from the
\* closed and empty channel in the select gives nil, which write ignores.)
Receive ==
  /\ HandoffOnly
  /\ Running
  /\ mpos \in {"select", "drain"}
  /\ queue # <<>>
  /\ handed' = Append(handed, Head(queue))
  /\ queue' = Tail(queue)
  /\ UNCHANGED <<qclosed, wg, rpos, prod, gpos, mpos, sendClosed>>

\* case err := <-doneChan, line 526, meeting doneChan <- err of line 519
ReceiveDone ==
  /\ HandoffOnly
  /\ Running
  /\ mpos = "select"
  /\ gpos = "send"
  /\ mpos' = "drain"
  /\ gpos' = "exited"
  /\ UNCHANGED <<queue, qclosed, wg, rpos, prod, handed, sendClosed>>

\* the range over lineChan ends when the channel is closed and empty, then
\* lines 535-540: the error line and the final flush
FinalFlushAfterDrain ==
  /\ HandoffOnly
  /\ Running
  /\ mpos = "drain"
  /\ queue = <<>>
  /\ qclosed
  /\ mpos' = "final"
  /\ UNCHANGED <<queue, qclosed, wg, rpos, prod, gpos, handed, sendClosed>>

\* return cmd.ProcessState.ExitCode(), err: line 542
RunCmdReturns ==
  /\ HandoffOnly
  /\ Running
  /\ mpos = "final"
  /\ mpos' = "returned"
  /\ UNCHANGED <<queue, qclosed, wg, rpos, prod, gpos, handed, sendClosed>>

HandoffNext ==
  \/ \E k \in {1, 2} : ReaderAdd(k)
  \/ \E k \in {1, 2} : ReaderPush(k)
  \/ \E k \in {1, 2} : ReaderDone(k)
  \/ CmdRunReturns
  \/ WgWait
  \/ CloseLineChan
  \/ Receive
  \/ ReceiveDone
  \/ FinalFlushAfterDrain
  \/ RunCmdReturns

(***************************************************************************)
(* Stream readers: src/main.go, splitFunc, mask, streamReader              *)
(***************************************************************************)
\* the two captured streams: 1 is stdout (fd1 true), 2 is stderr
Streams == {1, 2}

\* a byte of make([]byte, ...) that nothing has written yet
ZeroByte == "NUL"

\* the lines the child may write, by program
CC == <<":", ":">>
Cmd(name, props, data) == CC \o name \o props \o CC \o data

L_stop == Cmd(S_stopcommands, <<>>, <<"T">>)
L_maskx == Cmd(S_addmask, <<>>, <<"x">>)
L_resume == Cmd(<<"T">>, <<>>, <<>>)
L_masky == Cmd(S_addmask, <<>>, <<"y">>)
L_xy == <<"x", " ", "y">>

L_maskab == Cmd(S_addmask, <<>>, <<"a", "b">>)
L_xab == <<"x", "a", "b">>
L_abpad ==
  <<"a", "b", "-", "-", "-", "-", "-", "-", "-", "-", "-", "-", "-", "-">>
L_ab == <<"a", "b">>

L_err1 ==
  Cmd(S_error, <<" ">> \o OptKey.file \o <<"=", "f", ",">> \o OptKey.line
                 \o <<"=", "2">>, <<"m">>)
L_not1 ==
  Cmd(S_notice, <<" ">> \o OptKey.title \o <<"=", "t", "%", "2", "C", ",">>
                  \o OptKey.col \o <<"=", "3">>, <<"m">>)
L_warn1 ==
  Cmd(S_warning, <<" ">> \o OptKey.endLine \o <<"=", "1", "0", ",", "x", "=",
                   "1">>, <<"m">>)
L_err2 ==
  Cmd(S_error, <<" ">> \o OptKey.endColumn \o <<"=", "4", ",">> \o OptKey.file
                 \o <<"=">>, <<"m">>)
L_err3 == Cmd(S_error, <<>>, <<"m">>)

L_maskd == Cmd(S_addmask, <<>>, <<"d">>)
L_dbg ==
  Cmd(S_debug, <<" ">> \o OptKey.file \o <<"=", "a">>,
      <<"d", "%", "0", "A", "d">>)
L_grp == Cmd(S_group, <<>>, <<"g", " ", "d">>)
L_endg == Cmd(S_endgroup, <<>>, <<"z", "z">>)
L_dbg2 == <<" ">> \o Cmd(S_debug, <<>>, <<"%", "2", "5">>)

L_unk == Cmd(<<"f", "o", "o">>, <<>>, <<"b">>)
L_unkesc == Cmd(<<"f", "o", "o">>, <<>>, <<"%", "2", "5", "b">>)
L_bad0 == Cmd(S_error, <<" ">> \o OptKey.line \o <<"=", "0">>, <<"m">>)
L_badx == Cmd(S_notice, <<" ">> \o OptKey.col \o <<"=", "x">>, <<"m">>)
L_syn ==
  CC \o S_error \o <<" ">> \o OptKey.file
     \o <<"=", "a", "%", "2", "C", "b", ",", ":", "x">>

\* chunks a child writes that do not end with the end of a line
K_acr == <<"a", "\r">>
K_lfb == <<"\n", "b">>
K_clf == <<"c", "\n">>

\* what the child prints: the lines it may write to stdout and to stderr, and
\* the chunks it may write to stdout
Programs ==
  { <<{L_stop, L_maskx, L_resume, L_masky, L_xy}, {}, {}>>,
    <<{L_maskab, L_xab, L_abpad, L_ab}, {L_ab}, {}>>,
    <<{L_err1, L_not1, L_warn1, L_err2, L_err3}, {}, {}>>,
    <<{L_maskd, L_dbg, L_grp, L_endg, L_dbg2}, {}, {}>>,
    <<{L_unk, L_unkesc, L_bad0, L_badx, L_syn}, {}, {}>>,
    <<{}, {}, {K_acr, K_lfb, K_clf}>> }

\* the readers as streamReader sets them up, lines 403-409
ReaderStart ==
  /\ pipe = [k \in Streams |-> <<>>]
  /\ pclosed = FALSE
  /\ nOut = [k \in Streams |-> 0]
  /\ sbuf = [k \in Streams |-> [i \in 1..BufLen |-> ZeroByte]]
  /\ sstart = [k \in Streams |-> 0]
  /\ send = [k \in Streams |-> 0]
  /\ serr = [k \in Streams |-> FALSE]
  /\ masks = [k \in Streams |-> <<>>]
  /\ enable = [k \in Streams |-> TRUE]
  /\ endtoken = [k \in Streams |-> <<>>]
  /\ rdone = [k \in Streams |-> FALSE]
  /\ lineChan = <<>>
  /\ hist = [k \in Streams |-> <<>>]
  /\ regd = [k \in Streams |-> <<>>]
  /\ written = [k \in Streams |-> <<>>]

ReaderInit == script \in Programs /\ ReaderStart

\* the loop of splitFunc, lines 366-380, from byte i (counted from 1): how far
\* to advance and the length of the token data[:tok], -1 for no token
RECURSIVE SplitLoop(_, _)
SplitLoop(data, i) ==
  IF i > Len(data) THEN [advance |-> 0, tok |-> -1]
  ELSE IF data[i] = "\n" THEN
    IF i > 1 /\ data[i - 1] = "\r"
      THEN [advance |-> i, tok |-> i - 2]
      ELSE [advance |-> i, tok |-> i - 1]
  ELSE IF data[i] = "\r" /\ (i = Len(data) \/ data[i + 1] # "\n")
    THEN [advance |-> i, tok |-> i - 1]
  ELSE SplitLoop(data, i + 1)

\* splitFunc, lines 361-387
splitFunc(data, atEOF) ==
  IF atEOF /\ Len(data) = 0 THEN [advance |-> 0, tok |-> -1]
  ELSE IF SplitLoop(data, 1).tok >= 0 THEN SplitLoop(data, 1)
  ELSE IF atEOF THEN [advance |-> Len(data), tok |-> Len(data)]
  ELSE [advance |-> 0, tok |-> -1]

\* masking, line 389
masking == <<"*", "*", "*">>

\* bytes.ReplaceAll(s, old, new), line 393: a copy of s with the
\* non-overlapping occurrences of old replaced from the left
RECURSIVE ReplaceAll(_, _, _)
ReplaceAll(s, old, new) ==
  IF old = <<>>
    THEN IF s = <<>> THEN new
         ELSE new \o <<Head(s)>> \o ReplaceAll(Tail(s), old, new)
  ELSE IF Len(s) < Len(old) THEN s
  ELSE IF SubSeq(s, 1, Len(old)) = old
    THEN new \o ReplaceAll(SubSeq(s, Len(old) + 1, Len(s)), old, new)
  ELSE <<Head(s)>> \o ReplaceAll(Tail(s), old, new)

\* mask, lines 391-397; ms holds the bytes the entries of masks point to
RECURSIVE mask(_, _)
mask(s, ms) ==
  IF ms = <<>> THEN s ELSE mask(ReplaceAll(s, Head(ms), masking), Tail(ms))

\* newLine, lines 242-254, and newCommand, lines 256-275 (time left out)
newLine(fd1, size, text) ==
  [kind |-> IF fd1 THEN 1 ELSE 2, size |-> size, text |-> text,
   data |-> <<>>, opts |-> EmptyMap]

newCommand(size, name, data, o) ==
  [kind |-> -1, size |-> size, text |-> name, data |-> data, opts |-> o]

\* the unread part of the scanner buffer, s.buf[s.start:s.end]
Window(k) == SubSeq(sbuf[k], sstart[k] + 1, send[k])

\* bufio.Scanner.Scan can return a token from what the buffer holds
HasToken(k) ==
  /\ send[k] > sstart[k] \/ serr[k]
  /\ splitFunc(Window(k), serr[k]).tok >= 0

\* the bytes the entries of a mask list point to in buffer b
MaskBytes(ms, b) ==
  [i \in 1..Len(ms) |-> SubSeq(b, ms[i].off + 1, ms[i].off + ms[i].n)]

\* buffer b with the bytes from offset off on replaced by s
Overwrite(b, off, s) ==
  [p \in 1..Len(b) |->
     IF p > off /\ p <= off + Len(s) THEN s[p - off] ELSE b[p]]

\* the outcome of one iteration of the loop of streamReader: the event it
\* sends, if any, the scanner buffer afterwards, the new values of masks,
\* enable and endtoken, and reg: the bytes an add-mask has just registered
Outcome(ev, b, m, en, tk, reg) ==
  [ev |-> ev, buf |-> b, masks |-> m, enable |-> en, endtoken |-> tk,
   reg |-> reg]

\* a reader that drops the line instead of executing lines 482-483
PlainText_Dropped(k, t, b) ==
  Outcome(<<>>, b, masks[k], enable[k], endtoken[k], <<>>)

\* lines 482-483, with t the masked line
PlainText(k, t, b) ==
  Outcome(<<newLine(k = 1, Len(t), t)>>, b, masks[k], enable[k], endtoken[k],
          <<>>)

\* l <- cc, for the command c with the data and the properties given
CommandEvent(k, s, c, b, data, o) ==
  Outcome(<<newCommand(Len(s), c.Name, data, o)>>, b, masks[k], enable[k],
          endtoken[k], <<>>)

\* the switch of lines 414-478 for the command c parsed from the token s at
\* offset tokOff; b is the buffer after PraseGHC, ms the bytes of the masks,
\* m the outcome of c.Opts.Map() with the declarations of lines 427-432
Switch(k, s, tokOff, c, b, ms, m) ==
  IF ~c.ok THEN PlainText(k, mask(c.line, ms), b)
  \* lines 415-423 and 440-448: debug and group
  ELSE IF c.Name \in {S_debug, S_group}
    THEN CommandEvent(k, s, c, b, mask(c.Data, ms), EmptyMap)
  \* lines 425-438
  ELSE IF c.Name \in {S_notice, S_warning, S_error} THEN
    IF m.err THEN PlainText(k, mask(c.line, ms), b)
    ELSE CommandEvent(k, s, c, b, mask(c.Data, ms), m.out)
  \* lines 450-457
  ELSE IF c.Name = S_endgroup THEN CommandEvent(k, s, c, b, <<>>, EmptyMap)
  \* lines 459-463: the entry appended is the slice c.Data of the buffer
  ELSE IF c.Name = S_addmask THEN
    IF Len(c.Data) > 0 /\ Len(c.Data) - TrimLeftSpace(c.Data) > 0
      THEN Outcome(<<>>, b,
                   Append(masks[k], [off |-> tokOff + c.off, n |-> Len(c.Data)]),
                   enable[k], endtoken[k], <<c.Data>>)
      ELSE PlainText(k, mask(c.line, ms), b)
  \* lines 465-470
  ELSE IF c.Name = S_stopcommands THEN
    IF ~enable[k] THEN Outcome(<<>>, b, masks[k], FALSE, c.Data, <<>>)
    ELSE PlainText(k, mask(c.line, ms), b)
  \* lines 472-477
  ELSE IF ~enable[k] /\ c.Name = endtoken[k]
    THEN Outcome(<<>>, b, masks[k], TRUE, <<>>, <<>>)
    ELSE PlainText(k, mask(c.line, ms), b)

\* lines 412-413: the command c parsed from s, PraseGHC having rewritten the
\* bytes of s in the buffer
OnParsed(k, s, tokOff, c, b) ==
  Switch(k, s, tokOff, c, b, MaskBytes(masks[k], b), Map(c.opt, AnnotationDefs))

\* the body of the loop of streamReader, lines 411-483, on the token s that
\* starts at offset tokOff of the scanner buffer
LoopBody(k, s, tokOff, c) ==
  IF k = 1 /\ enable[k]
    THEN OnParsed(k, s, tokOff, c, Overwrite(sbuf[k], tokOff, c.line))
    ELSE PlainText(k, mask(s, MaskBytes(masks[k], sbuf[k])), sbuf[k])

\* the child writes one line and its line feed to a stream
ChildWrite(k, l) ==
  /\ ReaderOnly
  /\ ~pclosed
  /\ l \in script[k]
  /\ nOut[k] < (IF k = 1 THEN MaxLines ELSE MaxErrLines)
  /\ pipe' = [pipe EXCEPT ![k] = @ \o l \o <<"\n">>]
  /\ written' = [written EXCEPT ![k] = @ \o l \o <<"\n">>]
  /\ nOut' = [nOut EXCEPT ![k] = @ + 1]
  /\ UNCHANGED <<script, pclosed, sbuf, sstart, send, serr, masks, enable,
                 endtoken, rdone, lineChan, hist, regd>>

\* the child writes to stdout a chunk that ends where it chose (one write
\* on the pipe of cmd.StdoutPipe)
ChildWriteChunk(ch) ==
  /\ ReaderOnly
  /\ ~pclosed
  /\ ch \in script[3]
  /\ nOut[1] < MaxLines
  /\ pipe' = [pipe EXCEPT ![1] = @ \o ch]
  /\ written' = [written EXCEPT ![1] = @ \o ch]
  /\ nOut' = [nOut EXCEPT ![1] = @ + 1]
  /\ UNCHANGED <<script, pclosed, sbuf, sstart, send, serr, masks, enable,
                 endtoken, rdone, lineChan, hist, regd>>

\* the child exits: both pipes are closed (cmd.Run, line 514)
CmdExit ==
  /\ ReaderOnly
  /\ ~pclosed
  /\ pclosed' = TRUE
  /\ UNCHANGED <<script, pipe, nOut, sbuf, sstart, send, serr, masks, enable,
                 endtoken, rdone, lineChan, hist, regd, written>>

\* scanner.Scan (line 410) has no token in its buffer and reads: it first
\* moves the unread bytes to the front of the buffer when that frees space,
\* then reads what the pipe holds, as far as there is room, or meets EOF.
\* The lines of the child are shorter than the buffer, which never grows.
Read(k) ==
  /\ ReaderOnly
  /\ ~rdone[k]
  /\ ~serr[k]
  /\ ~HasToken(k)
  /\ pipe[k] # <<>> \/ pclosed
  /\ LET shift == sstart[k] > 0
                    /\ (send[k] = BufLen \/ sstart[k] > BufLen \div 2)
         b1 == IF shift THEN Overwrite(sbuf[k], 0, Window(k)) ELSE sbuf[k]
         s1 == IF shift THEN 0 ELSE sstart[k]
         e1 == IF shift THEN send[k] - sstart[k] ELSE send[k]
         n == IF Len(pipe[k]) < BufLen - e1 THEN Len(pipe[k]) ELSE BufLen - e1
     IN  /\ e1 < BufLen
         /\ sstart' = [sstart EXCEPT ![k] = s1]
         /\ IF pipe[k] = <<>>
              THEN /\ serr' = [serr EXCEPT ![k] = TRUE]
                   /\ sbuf' = [sbuf EXCEPT ![k] = b1]
                   /\ send' = [send EXCEPT ![k] = e1]
                   /\ pipe' = pipe
              ELSE /\ serr' = serr
                   /\ sbuf' = [sbuf EXCEPT
                                 ![k] = Overwrite(b1, e1, SubSeq(pipe[k], 1, n))]
                   /\ send' = [send EXCEPT ![k] = e1 + n]
                   /\ pipe' = [pipe EXCEPT
                                 ![k] = SubSeq(@, n + 1, Len(@))]
  /\ UNCHANGED <<script, pclosed, nOut, masks, enable, endtoken, rdone,
                 lineChan, hist, regd, written>>

\* the effect of one iteration that consumed sp.advance bytes and took the
\* token s, with outcome r
Iteration(k, sp, s, r) ==
  /\ sstart' = [sstart EXCEPT ![k] = @ + sp.advance]
  /\ sbuf' = [sbuf EXCEPT ![k] = r.buf]
  /\ masks' = [masks EXCEPT ![k] = r.masks]
  /\ enable' = [enable EXCEPT ![k] = r.enable]
  /\ endtoken' = [endtoken EXCEPT ![k] = r.endtoken]
  /\ lineChan' = lineChan \o r.ev
  /\ hist' = [hist EXCEPT ![k] = Append(@, s)]
  /\ regd' = [regd EXCEPT ![k] = @ \o r.reg]

\* s := scanner.Bytes(), line 411, for the split sp
Token(k, sp) == SubSeq(Window(k), 1, sp.tok)

ScanToken(k, sp, s) ==
  Iteration(k, sp, s, LoopBody(k, s, sstart[k], PraseGHC(s)))

\* streamReader, lines 410-484: scanner.Scan returns the next token and the
\* body of the loop runs on it
streamReader(k) ==
  /\ ReaderOnly
  /\ ~rdone[k]
  /\ HasToken(k)
  /\ ScanToken(k, splitFunc(Window(k), serr[k]),
               Token(k, splitFunc(Window(k), serr[k])))
  /\ UNCHANGED <<script, pipe, pclosed, nOut, send, serr, rdone, written>>

\* scanner.Scan returns false at the end of the stream and streamReader
\* returns (line 484)
ScanEnd(k) ==
  /\ ReaderOnly
  /\ ~rdone[k]
  /\ serr[k]
  /\ ~HasToken(k)
  /\ rdone' = [rdone EXCEPT ![k] = TRUE]
  /\ sstart' = [sstart EXCEPT ![k] = 0]
  /\ send' = [send EXCEPT ![k] = 0]
  /\ UNCHANGED <<script, pipe, pclosed, nOut, sbuf, serr, masks, enable,
                 endtoken, lineChan, hist, regd, written>>

ReaderNext ==
  \/ \E k \in Streams, l \in UNION {p[1] \cup p[2] : p \in Programs} :
       ChildWrite(k, l)
  \/ \E ch \in UNION {p[3] : p \in Programs} : ChildWriteChunk(ch)
  \/ CmdExit
  \/ \E k \in Streams : Read(k)
  \/ \E k \in Streams : streamReader(k)
  \/ \E k \in Streams : ScanEnd(k)

(***************************************************************************)
(* Claims                                                                  *)
(***************************************************************************)

\* sum of the sizes of the events in a buffer
RECURSIVE SumSize(_)
SumSize(s) == IF s = <<>> THEN 0 ELSE Head(s).size + SumSize(Tail(s))

\* thread t has returned from a flush that submitted a batch
FlushReturned(t) ==
  /\ flushed[t] \in {"ok", "err"}
  /\ spc[t] \in {"unlock", "done"}

\* C1: the running total bufSize always equals the sum of the sizes of the
\* events in buf, and whenever a flush of a non-empty buffer has returned,
\* after a successful or a failed submit, buf is empty, bufSize is 0 and no
\* idle timer is left (sender.timer is nil).
C1_BufferAccounting ==
  /\ bufSize = SumSize(buf)
  /\ \A t \in Threads :
       FlushReturned(t) => buf = <<>> /\ bufSize = 0 /\ timer = "nil"

\* C1 witness: a write has reached the threshold with two events buffered,
\* its submit failed, and the flush has returned
C1_Witness ==
  /\ spc["main"] = "unlock"
  /\ flushed["main"] = "err"
  /\ nWritten = 2
  /\ submits[1] = 1 /\ submits[2] = 1
  /\ buf = <<>>

\* the client state Connect must leave alone when it is already connected
ConnState ==
  <<ws, endpoint, CloseErr, CloseChan, closedChans, respNil, respChans, idNil,
    cntr, conn, nConn, lpc>>

\* C2: a Connect on a connected client returns nil when the endpoint is the
\* one it is connected to and a conflict error otherwise, and in both cases
\* changes nothing: no dial, no new listen goroutine, the correlation table,
\* the close channel and the endpoint stay as they are.
C2_ConnectWhileConnected ==
  [][(nOps' = nOps + 1 /\ lastOp'.op = "Connect" /\ ws # 0) =>
       /\ lastOp'.res = (IF lastOp'.arg = endpoint THEN "nil" ELSE "conflict")
       /\ ~lastOp'.dialed
       /\ UNCHANGED ConnState]_vars

\* C2 witness: Connect to the current endpoint has returned nil without
\* dialing while a call was waiting for its response
C2_Witness ==
  /\ lastOp.op = "Connect" /\ lastOp.res = "nil" /\ ~lastOp.dialed
  /\ lastOp.arg = endpoint
  /\ \E p \in Callers : cpc[p] = "wait" /\ cid[p] \in DOMAIN respChans

\* caller p holds a slot: it has registered one and has not yet removed it
InFlight(p) == cpc[p] \in {"write", "wait", "del"}

\* C3: two calls in flight at the same time on one connection never hold the
\* same id, and when a call that registered a slot returns (result,
\* application error, write error or timeout), no slot is registered under
\* its id any more.
C3_OneSlotPerId ==
  /\ [](\A p, q \in Callers :
          (p # q /\ InFlight(p) /\ InFlight(q) /\ cconn[p] = cconn[q])
            => cid[p] # cid[q])
  /\ [][\A p \in Callers :
          (InFlight(p) /\ cpc'[p] = "done") => cid[p] \notin DOMAIN respChans']_vars

\* C3 witness: two calls wait for their responses on the same connection
C3_Witness ==
  /\ cpc["p1"] = "wait" /\ cpc["p2"] = "wait"
  /\ cconn["p1"] = cconn["p2"]
  /\ cconn["p1"] = ws

\* C4 (as claimed): a call that gets no response returns a timeout error, and
\* a response frame for its id that the reader handles once the call has
\* timed out is dropped: the reader goes back to its loop instead of sending
\* to the channel of the call.
C4_LateResponseDropped ==
  [][\A p \in Callers :
       /\ (cpc[p] = "wait" /\ cpc'[p] = "del" /\ lpc' = lpc)
            => cres'[p] = "timeout"
       /\ \A c \in Conns :
            (/\ cpc[p] = "del" /\ cres[p] = "timeout"
             /\ lpc[c] = "recv" /\ lpc'[c] # "recv"
             /\ \E f \in inbox[lconn[c]] :
                  f.id = cid[p] /\ f \notin inbox'[lconn[c]])
              => lpc'[c] = "loop"]_vars

\* the step is an iteration of the loop of reader k: it took a token
Scanned(k) == Len(hist'[k]) = Len(hist[k]) + 1
LastToken(k) == hist'[k][Len(hist'[k])]

\* the step sent exactly one event
NewEvent == lineChan'[Len(lineChan')]
Sent == lineChan' = Append(lineChan, NewEvent)

\* the lines of the scenario of C5 were the first lines of stdout
StopThenMask ==
  Len(hist[1]) >= 2 /\ hist[1][1] = L_stop /\ hist[1][2] = L_maskx
ThenResumeAndMask ==
  StopThenMask /\ Len(hist[1]) >= 4 /\ hist[1][3] = L_resume
    /\ hist[1][4] = L_masky

\* C5 (as claimed): after stop-commands T, the line add-mask x is passed
\* through as a plain stdout event and x is never registered as a mask; after
\* the resume line for T, add-mask y registers y, and later plain events have
\* only the occurrences of y replaced by the marker.
C5_StoppedMaskIsInert ==
  /\ [](StopThenMask =>
          /\ \E i \in DOMAIN lineChan :
               lineChan[i].kind = 1 /\ lineChan[i].text = L_maskx
          /\ \A i \in DOMAIN regd[1] : regd[1][i] # <<"x">>)
  /\ [](ThenResumeAndMask => \E i \in DOMAIN regd[1] : regd[1][i] = <<"y">>)
  /\ [][(ThenResumeAndMask /\ Scanned(1) /\ Sent /\ NewEvent.kind = 1) =>
          NewEvent.text = ReplaceAll(LastToken(1), <<"y">>, masking)]_vars

\* the step emitted the plain line of token s with every token registered on
\* the primary stream replaced by the marker
MaskedPlain(k, s) ==
  /\ Sent
  /\ NewEvent.kind = (IF k = 1 THEN 1 ELSE 2)
  /\ NewEvent.text = mask(s, regd[1])

IsPlain(c) == ~c.ok

\* C6 (as claimed): events already sent keep their text when a mask is
\* registered later, and every plain line of stdout is sent with each
\* occurrence of every token registered before it replaced by ***.
C6_MaskFromRegistrationOn ==
  [][/\ \A i \in DOMAIN lineChan : lineChan'[i] = lineChan[i]
     /\ (Scanned(1) /\ IsPlain(PraseGHC(LastToken(1))))
          => MaskedPlain(1, LastToken(1))]_vars

\* the property was given with a value that is not empty
Given(c, p) == OptKey[p] \in DOMAIN c.opt
NumberGiven(c, p) == JsonInt(c.opt[OptKey[p]])

\* every numeric property given is an integer literal of at least 1
WellFormed(c) ==
  \A p \in {"col", "endColumn", "line", "endLine"} :
    Given(c, p) => NumberGiven(c, p).err = "nil" /\ NumberGiven(c, p).v >= 1

\* the property map o that C7 describes for the command c
AnnotationMap(c, o) ==
  /\ DOMAIN o \subseteq {"title", "file", "col", "endColumn", "line", "endLine"}
  /\ {"file", "line", "endLine"} \subseteq DOMAIN o
  /\ o.file = (IF Given(c, "file") THEN c.opt[OptKey.file] ELSE S_github)
  /\ \A p \in {"line", "endLine"} :
       o[p] = (IF Given(c, p) THEN NumberGiven(c, p).v ELSE 1)
  /\ "title" \in DOMAIN o <=> Given(c, "title")
  /\ Given(c, "title") => o.title = c.opt[OptKey.title]
  /\ \A p \in {"col", "endColumn"} :
       /\ p \in DOMAIN o <=> Given(c, p)
       /\ Given(c, p) => o[p] = NumberGiven(c, p).v

AnnotationStep(c) ==
  (c.ok /\ c.Name \in {S_notice, S_warning, S_error} /\ WellFormed(c)) =>
    /\ Sent
    /\ NewEvent.kind = -1
    /\ NewEvent.text = c.Name
    /\ AnnotationMap(c, NewEvent.opts)

\* C7: a notice, warning or error line of stdout whose numeric properties are
\* well-formed is sent as one command event whose property map has file (the
\* value given, else .github), line and endLine (the value given, else 1),
\* each of title, col and endColumn exactly when it was given with a value
\* that is not empty, and no other name.
C7_AnnotationProperties ==
  [][Scanned(1) => AnnotationStep(PraseGHC(LastToken(1)))]_vars

\* C7 witness: a notice with a title and a column, and an error with a file
\* and a line, have been sent with the defaults filled in
C7_Witness ==
  /\ \E i \in DOMAIN lineChan :
       /\ lineChan[i].kind = -1 /\ lineChan[i].text = S_notice
       /\ DOMAIN lineChan[i].opts = {"title", "file", "col", "line", "endLine"}
       /\ lineChan[i].opts.file = S_github /\ lineChan[i].opts.col = 3
       /\ lineChan[i].opts.line = 1
  /\ \E i \in DOMAIN lineChan :
       /\ lineChan[i].kind = -1 /\ lineChan[i].text = S_error
       /\ DOMAIN lineChan[i].opts = {"file", "line", "endLine"}
       /\ lineChan[i].opts.file = <<"f">> /\ lineChan[i].opts.line = 2

GroupStep(c) ==
  /\ (c.ok /\ c.Name \in {S_debug, S_group}) =>
       /\ Sent
       /\ NewEvent.kind = -1
       /\ NewEvent.text = c.Name
       /\ NewEvent.data = mask(c.Data, regd[1])
       /\ DOMAIN NewEvent.opts = {}
  /\ (c.ok /\ c.Name = S_endgroup) =>
       /\ Sent
       /\ NewEvent.kind = -1
       /\ NewEvent.text = S_endgroup
       /\ NewEvent.data = <<>>
       /\ DOMAIN NewEvent.opts = {}

\* C8 (as claimed): a debug or group line of stdout is sent as exactly one
\* command event with its name, its unescaped data in which every registered
\* mask token is replaced by the marker, and no properties whatever the line
\* gave; an endgroup line is sent as a command event with the name only.
C8_DebugGroupEvents ==
  [][Scanned(1) => GroupStep(PraseGHC(LastToken(1)))]_vars

\* C9 (as claimed): the reader of stderr reads the mask list the reader of
\* stdout writes, and every plain line of either stream is sent with each
\* occurrence of every token registered on stdout replaced by the marker.
C9_MasksShared ==
  /\ [](masks[2] = masks[1])
  /\ [][/\ Scanned(2) => MaskedPlain(2, LastToken(2))
        /\ (Scanned(1) /\ IsPlain(PraseGHC(LastToken(1))))
             => MaskedPlain(1, LastToken(1))]_vars

GateStep(c) ==
  /\ (enable[1] /\ c.ok /\ c.Name = S_stopcommands /\ c.Data # <<>>) =>
       ~enable'[1] /\ endtoken'[1] = c.Data
  /\ ~enable[1] =>
       /\ masks'[1] = masks[1]
       /\ \A i \in DOMAIN lineChan' : i > Len(lineChan) => lineChan'[i].kind # -1
  /\ (~enable[1] /\ c.ok /\ c.Name = endtoken[1]) =>
       enable'[1] /\ endtoken'[1] = <<>> /\ lineChan' = lineChan

\* C10 (as claimed): the gate starts enabled; a stop-commands line with data
\* seen while it is enabled disables it and stores the data as the resume
\* token; while it is disabled no line of stdout yields a command event or
\* registers a mask; a line whose command name is the stored token enables
\* it again, clears the token and sends no event.
C10_GateStateMachine ==
  /\ enable[1]
  /\ [][Scanned(1) => GateStep(PraseGHC(LastToken(1)))]_vars

\* the names the switch of streamReader knows
KnownNames ==
  {S_debug, S_notice, S_warning, S_error, S_group, S_endgroup, S_addmask,
   S_stopcommands}

UnknownCommand(c) == c.ok /\ c.Name \notin KnownNames

UnknownDropped(c) == UnknownCommand(c) => lineChan' = lineChan

\* C11 (as claimed): a well-formed command line of stdout whose name is not
\* one the reader knows, seen while the gate is enabled, produces no event.
C11_UnknownCommandDropped ==
  [][(Scanned(1) /\ enable[1]) => UnknownDropped(PraseGHC(LastToken(1)))]_vars

\* the step sent exactly one plain stdout event for the token s, and when no
\* mask is registered and the parser left the bytes of s alone, its text is s
OnePlainEvent(c, s) ==
  /\ Len(lineChan') = Len(lineChan) + 1
  /\ Sent
  /\ NewEvent.kind = 1
  /\ DOMAIN NewEvent.opts = {}
  /\ (regd[1] = <<>> /\ c.line = s) => NewEvent.text = s

UnknownAsPlain(c, s) == UnknownCommand(c) => OnePlainEvent(c, s)

\* C11 (amended): a well-formed command line of stdout whose name is not one
\* the reader knows, seen while the gate is enabled, is sent as exactly one
\* plain stdout event built from the line, and never as a command event.
C11_UnknownCommandIsPlainText ==
  [][(Scanned(1) /\ enable[1]) =>
       UnknownAsPlain(PraseGHC(LastToken(1)), LastToken(1))]_vars

\* C11 witness: the line ::foo::b has been read and sent as plain text
C11_Witness ==
  /\ Len(hist[1]) = 1 /\ hist[1][1] = L_unk
  /\ lineChan = <<newLine(TRUE, Len(L_unk), L_unk)>>

\* a notice, warning or error line one of whose numeric properties is present
\* but is not an integer of at least 1
IllFormedAnnotation(c) ==
  c.ok /\ c.Name \in {S_notice, S_warning, S_error} /\ ~WellFormed(c)

IllFormedDropped(c) == IllFormedAnnotation(c) => lineChan' = lineChan

\* C12 (as claimed): a notice, warning or error line of stdout with a numeric
\* property that is present but is not an integer of at least 1 produces no
\* event, neither a command event nor a plain stdout event.
C12_IllFormedAnnotationDropped ==
  [][Scanned(1) => IllFormedDropped(PraseGHC(LastToken(1)))]_vars

IllFormedAsPlain(c, s) == IllFormedAnnotation(c) => OnePlainEvent(c, s)

\* C12 (amended): a notice, warning or error line of stdout with a numeric
\* property that is present but is not an integer of at least 1 is not sent
\* as a command event; it is sent as exactly one plain stdout event built from
\* the line.
C12_IllFormedAnnotationIsPlainText ==
  [][Scanned(1) =>
       IllFormedAsPlain(PraseGHC(LastToken(1)), LastToken(1))]_vars

\* C12 witness: ::error line=0::m and ::notice col=x::m have been read and
\* each has been sent as plain text
C12_Witness ==
  /\ hist[1] = <<L_bad0, L_badx>>
  /\ lineChan = <<newLine(TRUE, Len(L_bad0), L_bad0),
                  newLine(TRUE, Len(L_badx), L_badx)>>

\* Close() has begun and no Connect has succeeded since: the close sequence
\* is running, or it has completed on a client that was connected
CloseBegun == ctlpc # "idle" \/ (ws = 0 /\ nConn > 0)

\* caller p begins an rpc call in this step
RpcStarts(p) == ncalls'[p] = ncalls[p] + 1

\* the call of p returned a non-nil error at once: no crash, no slot, no frame
RefusedAtOnce(p) ==
  /\ ~sdbCrashed'
  /\ cpc'[p] = "done"
  /\ cres'[p] \in {"closeerr", "inuse"}
  /\ respChans' = respChans
  /\ reqs' = reqs

\* C13: an rpc call that starts after Close() has begun, and before a new
\* Connect, returns a non-nil error immediately, registers no slot, sends no
\* frame and does not crash.
C13_RpcAfterCloseRefused ==
  [][\A p \in Callers : (CloseBegun /\ RpcStarts(p)) => RefusedAtOnce(p)]_vars

\* the i-th call made on the serial returned an id
IsId(i) == i >= 1 /\ i <= Len(issued) /\ issued[i].op = "next"

\* C14: serial.next never returns an id below 1; within a connection each id
\* is larger than the one before until the counter overflows; the id after
\* the largest int is 1; and the first id after a reset (and the first id of
\* all) is 1.
C14_SerialIds ==
  \A i \in 1..Len(issued) :
    IsId(i) =>
      /\ issued[i].id >= 1
      /\ (i = 1 \/ ~IsId(i - 1)) => issued[i].id = 1
      /\ (IsId(i - 1) /\ issued[i - 1].id # MaxInt) =>
           issued[i].id > issued[i - 1].id
      /\ (IsId(i - 1) /\ issued[i - 1].id = MaxInt) => issued[i].id = 1

\* C14 witness: the counter has overflowed, and after that a reset was
\* followed by a first id
C14_Witness ==
  \E i, j \in 1..Len(issued) :
    /\ IsId(i) /\ issued[i].id = MaxInt /\ IsId(i + 1)
    /\ j > i + 1 /\ ~IsId(j) /\ IsId(j + 1)

\* thread t is inside sender.flush, or between the append of write and the
\* unlock
InFlush(t) == spc[t] \in {"F1", "F2", "F3", "F4", "F5"}
InSender(t) == InFlush(t) \/ spc[t] = "unlock"

NoFlushOverlap == ~(InFlush("main") /\ InFlush("cb"))

\* C15: every access to the sender's buffer, total and timer (by write, by
\* the flush write triggers, by the flush of the idle timer's callback and
\* by the final flush) is made with the sender's lock held, so no two flushes
\* overlap and no flush overlaps an append.
C15_SenderAccessLocked ==
  /\ \A t \in Threads : InSender(t) => mu = t
  /\ NoFlushOverlap

\* write appends in this step (lines 322-323)
Appends == nWritten' = nWritten + 1

\* the write in progress is about to return (its deferred unlock is next)
WriteReturns == spc["main"] = "unlock"

\* C16: a write whose total after the append is at least the threshold
\* flushes before it returns, so with a threshold above 0 the total is below
\* the threshold whenever a write returns; a write whose total stays below
\* the threshold returns without a submit.
C16_WriteFlushesAtThreshold ==
  /\ [](WriteReturns /\ mbs > 0 => bufSize < mbs)
  /\ [](WriteReturns /\ nWritten \in BufIds => bufSize < mbs)
  /\ [][Appends =>
          /\ bufSize' >= mbs => spc'["main"] = "F1"
          /\ bufSize' < mbs => WriteReturns' /\ submits' = submits]_vars

\* C16 witness: with threshold 2, the second of two writes reached it exactly
\* and is about to return after its flush has submitted both events
C16_Witness ==
  /\ mbs = 2 /\ nWritten = 2 /\ sctx = "select"
  /\ WriteReturns /\ flushed["main"] = "ok"
  /\ submits[1] = 1 /\ submits[2] = 1
  /\ bufSize = 0

\* the reader task c observes a read failure in this step (lines 204-213)
ReadFails(c) == lpc[c] = "recv" /\ lpc'[c] \in {"exited", "waitclose"}

\* C17: Close() closes the channel CloseChan of the connection before it
\* writes the close control frame and before it closes the transport, so
\* whenever a reader task observes a read failure on a transport that Close()
\* has closed, the channel of that connection is closed already.
C17_SignalBeforeTransportClose ==
  /\ [](\A c \in Conns : conn[c].st = "closed" => c \in closedChans)
  /\ [](ctlpc # "idle" => CloseChan \in closedChans)
  /\ [][\A c \in Conns :
          (ReadFails(c) /\ conn[lconn[c]].st = "closed") =>
            lconn[c] \in closedChans]_vars

\* C17 witness: the reader task of the first connection has found the
\* transport closed by Close() and has exited
C17_Witness ==
  /\ lpc[1] = "exited" /\ CloseErr = "closed"
  /\ conn[1].st = "closed" /\ 1 \in closedChans

\* Connect or Close returns in this step
OpReturns(op) == nOps' = nOps + 1 /\ lastOp'.op = op

\* Close() called on a client that is not connected
CloseUnconnected == OpReturns("Close") /\ ctlpc = "idle"

\* Close() called on a connected client returns
CloseConnected == OpReturns("Close") /\ ctlpc = "c_reset"

\* C18: Close() on a client that is not connected returns no error and
\* changes nothing, and no channel is ever closed twice; when Close() on a
\* connected client returns, the endpoint, the id sequence and the correlation
\* table are reset; and a Connect made while not connected, to whatever
\* endpoint, is never refused with a conflict.
C18_CloseIdempotentAndResets ==
  [][/\ CloseUnconnected =>
          /\ ws = 0 /\ lastOp'.res = "nil"
          /\ UNCHANGED <<ws, endpoint, CloseErr, CloseChan, respNil, respChans,
                         idNil, cntr, wsLock, closedChans, conn, inbox, reqs>>
     /\ closedChans' # closedChans =>
          /\ CloseChan \notin closedChans
          /\ closedChans' = closedChans \cup {CloseChan}
     /\ CloseConnected =>
          /\ ws' = 0 /\ endpoint' = "" /\ cntr' = 0
          /\ DOMAIN respChans' = {}
          /\ wsLock' = "free"
     /\ (OpReturns("Connect") /\ ws = 0) =>
          /\ lastOp'.res # "conflict"
          /\ lastOp'.res = "nil" => ws' # 0 /\ endpoint' = lastOp'.arg]_vars

\* C18 witness: after Connect to e1 and Close, a Connect to e2 was accepted
C18_Witness ==
  /\ nOps = 3 /\ nConn = 2
  /\ lastOp = [op |-> "Connect", arg |-> "e2", dialed |-> TRUE, res |-> "nil"]
  /\ endpoint = "e2" /\ conn[1].st = "closed"

\* the lines of a stream that is seen as a whole: the tokens splitFunc
\* returns when every call has all the remaining bytes and the end of the
\* stream before it
RECURSIVE WholeLines(_)
RestLines(data, sp) ==
  <<SubSeq(data, 1, sp.tok)>>
    \o WholeLines(SubSeq(data, sp.advance + 1, Len(data)))
WholeLines(data) ==
  IF data = <<>> THEN <<>> ELSE RestLines(data, splitFunc(data, TRUE))

\* C19: however the bytes of a stream are cut into chunks, the reader gets
\* the lines of the stream as a whole: each LF, each CRLF and each CR that no
\* LF follows ends exactly one line (a CRLF never gives an empty line of its
\* own), and bytes left without a terminator at the end are one last line.
C19_ChunkingInvariant ==
  \A k \in Streams : rdone[k] => hist[k] = WholeLines(written[k])

\* the step sent the token s, masked with the masks registered so far, as
\* one plain stdout event, and left the bytes of the line as they were
PlainOriginal(c, s) ==
  /\ c.line = s
  /\ Len(lineChan') = Len(lineChan) + 1
  /\ Sent
  /\ NewEvent.kind = 1
  /\ NewEvent.text = mask(s, regd[1])

RejectedAsOriginal(c, s) == ~c.ok => PlainOriginal(c, s)

\* C20: when PraseGHC rejects a line of stdout with a syntax error, exactly
\* one plain stdout event is sent whose text is the original line with the
\* masks applied: the failed parse leaves the bytes of the line unchanged,
\* also when property values with percent escapes were scanned before the
\* error.
C20_RejectedLineUnchanged ==
  [][(Scanned(1) /\ enable[1]) =>
       RejectedAsOriginal(PraseGHC(LastToken(1)), LastToken(1))]_vars

\* the events of reader k in the sequence q, in order
RECURSIVE OfReader(_, _)
OfReader(q, k) ==
  IF q = <<>> THEN <<>>
  ELSE IF Head(q)[1] = k THEN <<Head(q)>> \o OfReader(Tail(q), k)
  ELSE OfReader(Tail(q), k)

\* the events reader k has pushed, in production order
Pushed(k) == [i \in 1..prod[k] |-> <<k, i>>]

SentPlain ==
  /\ Len(lineChan') = Len(lineChan) + 1
  /\ Sent
  /\ NewEvent.kind \in {1, 2}

\* C22: the size recorded on a plain line event is the byte length of the
\* line as it was read, before masking, not the length of the masked text.
C22_PlainSizeIsOriginalLength ==
  [][\A k \in Streams :
       (Scanned(k) /\ SentPlain) => NewEvent.size = Len(LastToken(k))]_vars

\* reader task c is blocked at line 211 in a receive from the nil channel,
\* which never becomes ready
BlockedOnNil(c) == lpc[c] = "waitclose" /\ lchan[c] = <<"close", 0>>

\* reader task c, started for connection c, is in ReadMessage on the
\* transport of another connection: it read s.ws after Close() had reset the
\* client and a new Connect had stored a new transport
ReadsAfterReset(c) == lpc[c] = "recv" /\ lconn[c] # c

\* C23: the reader task of a connection exits once Close() has run: it is
\* never left blocked waiting for the shutdown signal, and it never reads
\* from the transport after Close() has reset the client's state.
C23_ReaderExitsAfterClose ==
  \A c \in Conns : ~BlockedOnNil(c) /\ ~ReadsAfterReset(c)

\* reader task c is in the send of line 225 on the channel of a call that
\* has left its select (lines 255-272): nobody will ever receive from that
\* channel, so the send never completes
SendStuck(c) ==
  /\ lpc[c] = "send"
  /\ \A p \in Callers :
       ~(lchan[c] = OwnChan(p) /\ cpc[p] \in {"write", "wait"})

\* C24: the reader task never blocks for ever while delivering a response:
\* however the arrival of a response (a second response for the same id
\* included) interleaves with the timeout or the return of its call, the
\* reader finishes handling the frame and goes on with later frames.
C24_ReaderNeverStuck == \A c \in Conns : ~SendStuck(c)

\* the call of p returns in this step, running its deferred delChan
Returns(p) == cpc[p] = "del" /\ cpc'[p] = "done"

\* every slot that is not the one p registered is still registered
KeepsOthers(p) ==
  \A id \in DOMAIN respChans :
    respChans[id] # OwnChan(p) =>
      id \in DOMAIN respChans' /\ respChans'[id] = respChans[id]

\* C25: an rpc call that returns removes from the correlation table only the
\* slot it registered itself, also when it was in flight across a Close()
\* and a new Connect() and a call on the new connection uses the same id.
C25_DelOwnSlotOnly ==
  [][\A p \in Callers : Returns(p) => KeepsOthers(p)]_vars

\* C26: every event appended to the sender's buffer is carried by at most
\* one submit request, however size-triggered flushes, idle-timer flushes and
\* the final flush interleave, and also when the submit failed.
C26_SubmittedAtMostOnce == \A i \in DOMAIN submits : submits[i] <= 1

\* no write and no flush is in progress
SenderIdle ==
  /\ spc["main"] \in {"select", "drain", "final", "done"}
  /\ spc["cb"] = "idle"

\* an idle timer is armed, or has expired with its callback still to run
TimerPending == timer = "armed" \/ cbPending > 0

\* C27: whenever the buffer is not empty and no write or flush is in
\* progress, an idle timer is armed or its callback is pending; hence, the
\* timer and its callback being scheduled, every event appended is eventually
\* carried by a submit request even if no further event arrives.
C27_IdleTimerCoversBuffer ==
  /\ []((buf # <<>> /\ SenderIdle) => TimerPending)
  /\ \A i \in 1..(MaxEvents + 1) : (i \in BufIds) ~> (submits[i] >= 1)

\* C27 witness: one event, smaller than the threshold, was appended, no
\* other event followed, and the callback of the idle timer has submitted it
C27_Witness ==
  /\ nWritten = 1 /\ mbs = MaxMbs /\ spc["main"] = "select"
  /\ flushed["cb"] = "ok" /\ spc["cb"] = "idle"
  /\ submits[1] = 1 /\ buf = <<>>

(***************************************************************************)
(* Specifications                                                          *)
(***************************************************************************)
\* the sender with every threshold from 0 to MaxMbs; the client is not used
InitSender ==
  /\ SenderInit /\ SDBInit /\ script = <<{}, {}, {}>> /\ ReaderStart
  /\ SerialInit /\ HandoffInit

SpecSender == InitSender /\ [][SenderNext]_vars

\* the sender with its scheduling: an armed timer expires (time.AfterFunc),
\* the callback gets the lock when it is free, and a thread inside flush or
\* at its unlock goes on (Query returns: an rpc call ends by its 5 s timeout
\* at the latest).  Nothing is assumed about the child or the consumer.
SenderFairness ==
  /\ WF_vars(TimerFire)
  /\ WF_vars(CbLock)
  /\ \A t \in Threads :
       /\ WF_vars(FlushBegin(t))
       /\ WF_vars(\E ok \in BOOLEAN : QueryReturn(t, ok))
       /\ WF_vars(FlushClear(t))
       /\ WF_vars(FlushTimerCheck(t))
       /\ WF_vars(\E reread \in BOOLEAN : FlushTimerStop(t, reread))
       /\ WF_vars(Unlock(t))

SpecSenderLive == InitSender /\ [][SenderNext]_vars /\ SenderFairness

\* the client on its own
InitSDB ==
  /\ SDBInit /\ SenderInit /\ mbs = 0
  /\ script = <<{}, {}, {}>> /\ ReaderStart /\ SerialInit /\ HandoffInit

SpecSDB == InitSDB /\ [][SDBNext]_vars

\* the stream readers on each program of the child
InitReader ==
  /\ ReaderInit /\ SenderInit /\ mbs = 0 /\ SDBInit /\ SerialInit
  /\ HandoffInit

SpecReader == InitReader /\ [][ReaderNext]_vars

\* a serial on its own, under any sequence of next and reset
InitSerial ==
  /\ SerialInit /\ SDBInit /\ SenderInit /\ mbs = 0
  /\ script = <<{}, {}, {}>> /\ ReaderStart /\ HandoffInit

SpecSerial == InitSerial /\ [][SerialStep]_vars

\* the handoff queue of runCmd on its own
InitHandoff ==
  /\ HandoffInit /\ SerialInit /\ SDBInit /\ SenderInit /\ mbs = 0
  /\ script = <<{}, {}, {}>> /\ ReaderStart

SpecHandoff == InitHandoff /\ [][HandoffNext]_vars

=============================================================================
